---------------------------- MODULE Spec2Model ----------------------------
(***************************************************************************)
(* A model of the SecureDNA DOPRF client batch driver (QueryStateSet), of  *)
(* the three zkVM guest programs (hash-proof, checksum-proof and           *)
(* verification-proof) and of the HDB screening endpoints.                 *)
(*                                                                         *)
(* The Ristretto group has prime order; the model keeps the algebra and    *)
(* scales the order down to the prime L.  A point is written by its        *)
(* discrete logarithm to the base point G, so point addition is addition   *)
(* modulo L and scalar multiplication is multiplication modulo L.  The     *)
(* security parameter is scaled with the order: as in the source,          *)
(* 2^SECURITY_PARAMETER is smaller than the group order.                   *)
(***************************************************************************)
EXTENDS Integers, Sequences, FiniteSets, TLC

VARIABLES
    keys,                   \* the committee: secret, shares, quorum, corrupted shares
    active_security_key,    \* ActiveSecurityKey handed to from_iter
    messages,               \* the (tag, bytes) items handed to from_iter
    pc,                     \* "init" before from_iter, "built" after it, "hashed"
                            \* after the host's incorporate_responses_and_hash
    querystates,            \* QueryStateSet.querystates
    randomized_target,      \* QueryStateSet.randomized_target
    hash_stdin,             \* witness stream written for the hash-proof guest
    checksum_stdin,         \* witness stream written for the checksum-proof guest
    hash_public_values,     \* public values committed by the hash-proof guest
    checksum_public_values, \* public values committed by the checksum-proof guest
    sum,                    \* from_iter's accumulator of v*H(m)
    calls,                  \* number of incorporate_response calls made on the set
    result,                 \* return value of the last call made on the set
    verification_stdin,     \* witness stream of the verification-proof guest
    verification_run,       \* the run of the verification-proof guest: halted, public values
    hdb_clients,            \* HDB session table: cookie -> et_state
    hdb_log,                \* HDB: the screening requests handled, with their outcome
    hdb_tasks,              \* HDB: the handler tasks in progress, by request
    hdb_clients_writer,     \* HDB: the task holding the write lock of scep.clients, or 0
    hdb_queries,            \* HDB: the permits available in the hdb_queries semaphore
    doprf_process           \* the client's call of process: its position, what it sent, its result

clientVars == <<keys, active_security_key, messages, pc, querystates, randomized_target,
                hash_stdin, checksum_stdin, hash_public_values, checksum_public_values,
                sum, calls, result>>

guestVars == <<verification_stdin, verification_run>>

taskVars == <<hdb_tasks, hdb_clients_writer, hdb_queries>>

hdbVars == <<hdb_clients, hdb_log, taskVars>>

processVars == <<doprf_process>>

vars == <<clientVars, guestVars, hdbVars, processVars>>

---------------------------------------------------------------------------
(* Bounds of the model.                                                    *)

MaxBatch == 2
MaxKeyholders == 3
MaxCalls == 2
MaxRequests == 2

---------------------------------------------------------------------------
(* Group primitives (curve25519_dalek Scalar, RistrettoPoint,              *)
(* CompressedRistretto).                                                   *)

L == 5

SECURITY_PARAMETER == 1

Scalars == 0 .. (L - 1)

Points == 0 .. (L - 1)

Identity == 0

BasePoint == 1

\* Option<T>: None is the empty sequence, Some(x) the one-element sequence.
None == <<>>

Some(x) == <<x>>

IsSome(o) == o # <<>>

\* Option::unwrap / Option::expect on a value that is Some
Unwrap(o) == o[1]

ScalarAdd(a, b) == (a + b) % L

ScalarSub(a, b) == (a + L - (b % L)) % L

ScalarMul(a, b) == (a * b) % L

RECURSIVE ScalarPow(_, _)
ScalarPow(a, e) == IF e = 0 THEN 1 % L ELSE ScalarMul(a, ScalarPow(a, e - 1))

\* Scalar::invert is a^(l-2); the inverse of zero is zero.
ScalarInvert(a) == ScalarPow(a, L - 2)

PointAdd(p, q) == (p + q) % L

PointSub(p, q) == (p + L - (q % L)) % L

PointMul(a, p) == (a * p) % L

\* RistrettoPoint::vartime_double_scalar_mul_basepoint(a, A, b) = a*A + b*G
DoubleScalarMulBasepoint(a, A, b) == PointAdd(PointMul(a, A), PointMul(b, BasePoint))

\* RistrettoPoint::compress: the canonical encoding of a point.  The encoded
\* field element of a canonical encoding is non-negative (its low bit is 0);
\* the identity encodes as the all-zero string.
Compress(p) == 2 * p

\* CompressedRistretto::decompress: None on a non-canonical encoding.
Decompress(b) == IF b % 2 = 0 /\ b \div 2 < L THEN Some(b \div 2) ELSE None

\* CompressedRistretto::default(): 32 zero bytes.
CompressedDefault == 0

\* Scalar::to_bytes / as_bytes: little-endian digits of the canonical value.
ByteBase == 4

ScalarToBytes(a) == <<a % ByteBase, a \div ByteBase>>

BytesValue(bs) == bs[1] + ByteBase * bs[2]

\* Scalar::from_canonical_bytes: None unless the value is below the order.
ScalarFromCanonicalBytes(bs) ==
    IF BytesValue(bs) < L THEN Some(BytesValue(bs)) ELSE None

\* Scalar::from_bytes_mod_order
ScalarFromBytesModOrder(bs) == BytesValue(bs) % L

RECURSIVE SumSeq(_)
SumSeq(s) == IF s = <<>> THEN 0 ELSE Head(s) + SumSeq(Tail(s))

\* RistrettoPoint::hash_from_bytes::<Sha3_512>: a fixed function of the bytes.
\* No modelled message hashes to the identity.
PointHashFromBytes(bytes) == 1 + ((Len(bytes) + 2 * SumSeq(bytes)) % (L - 1))

RECURSIVE DigestFold(_)
DigestFold(s) ==
    IF s = <<>> THEN 0
    ELSE (3 * DigestFold(SubSeq(s, 1, Len(s) - 1)) + s[Len(s)] + 1) % (L - 1)

\* Scalar::hash_from_bytes::<Sha3_512>: a fixed, order-sensitive function of
\* the bytes.  No modelled input hashes to the zero scalar.
ScalarHashFromBytes(bytes) == 1 + DigestFold(bytes)

---------------------------------------------------------------------------
(* Lagrange core (crate::lagrange, crate::party).                          *)

RECURSIVE ProdOver(_, _)
ProdOver(S, f) ==
    IF S = {} THEN 1 % L
    ELSE LET x == CHOOSE y \in S : TRUE
         IN  ScalarMul(f[x], ProdOver(S \ {x}, f))

RECURSIVE SumOver(_, _)
SumOver(S, f) ==
    IF S = {} THEN 0
    ELSE LET x == CHOOSE y \in S : TRUE
         IN  ScalarAdd(f[x], SumOver(S \ {x}, f))

\* KeyserverIdSet::langrange_coefficient_for_id: prod over j in Q, j # i, of j/(j-i)
langrange_coefficient_for_id(Q, i) ==
    ProdOver(Q \ {i},
             [j \in Q \ {i} |-> ScalarMul(j % L, ScalarInvert(ScalarSub(j, i)))])

\* evaluate_lagrange_polynomial(control_points, x): the value at x of the
\* polynomial through (i, control_points[i+1]) for i = 0 .. k-1.
evaluate_lagrange_polynomial(control_points, x) ==
    LET idx == 0 .. (Len(control_points) - 1)
    IN  SumOver(idx,
                [i \in idx |->
                    ScalarMul(control_points[i + 1],
                              ProdOver(idx \ {i},
                                       [j \in idx \ {i} |->
                                           ScalarMul(ScalarSub(x, j),
                                                     ScalarInvert(ScalarSub(i, j)))]))])

---------------------------------------------------------------------------
(* Keyshares (prf.rs).                                                     *)

\* Query::to_rp, HashPart::to_rp, CompletedHashValue::to_rp
to_rp(c) == Unwrap(Decompress(c))

\* KeyShare::apply
KeyShareApply(share, q) == Compress(PointMul(share, to_rp(q)))

\* KeyShare::apply_query_and_lagrange_coefficient
apply_query_and_lagrange_coefficient(share, q, c) ==
    Compress(PointMul(ScalarMul(c, share), to_rp(q)))

\* generate_keyshares that also refuses a committee of exactly the quorum
generate_keyshares_strict(secret_key, required_keyholders, num_keyholders, random_points) ==
    IF num_keyholders <= required_keyholders
    THEN [err |-> "UnreachableQuorumError", keyshares |-> <<>>]
    ELSE LET control_points == <<secret_key>> \o random_points
         IN  [err |-> "",
              keyshares |->
                 [x \in 1 .. num_keyholders |->
                     IF x + 1 <= Len(control_points) THEN control_points[x + 1]
                     ELSE evaluate_lagrange_polynomial(control_points, x)]]

\* generate_keyshares that reads the cached control point of x - 1 for x
generate_keyshares_shifted(secret_key, required_keyholders, num_keyholders, random_points) ==
    IF num_keyholders < required_keyholders
    THEN [err |-> "UnreachableQuorumError", keyshares |-> <<>>]
    ELSE LET control_points == <<secret_key>> \o random_points
         IN  [err |-> "",
              keyshares |->
                 [x \in 1 .. num_keyholders |->
                     IF x <= Len(control_points) THEN control_points[x]
                     ELSE evaluate_lagrange_polynomial(control_points, x)]]

\* generate_keyshares(secret_key, required_keyholders, num_keyholders, rng);
\* random_points are the required_keyholders - 1 scalars drawn from rng.
generate_keyshares(secret_key, required_keyholders, num_keyholders, random_points) ==
    IF num_keyholders < required_keyholders
    THEN [err |-> "UnreachableQuorumError", keyshares |-> <<>>]
    ELSE LET control_points == <<secret_key>> \o random_points
         IN  [err |-> "",
              keyshares |->
                 [x \in 1 .. num_keyholders |->
                     IF x + 1 <= Len(control_points) THEN control_points[x + 1]
                     ELSE evaluate_lagrange_polynomial(control_points, x)]]

---------------------------------------------------------------------------
(* Active-security key and randomized target (crate::active_security).     *)

\* ActiveSecurityKey::from_secret_and_keyshares: the public elements s*G and
\* s_i*G of the committee.
from_secret_and_keyshares(secret, shares) ==
    [secret_point |-> PointMul(secret, BasePoint),
     share_points |-> [i \in DOMAIN shares |-> PointMul(shares[i], BasePoint)]]

\* ActiveSecurityKey::randomized_target(random_modifier)
randomized_target_of(key, random_modifier) ==
    [random_modifier |-> random_modifier,
     target          |-> PointMul(random_modifier, key.secret_point),
     share_targets   |-> [i \in DOMAIN key.share_points |->
                             PointMul(random_modifier, key.share_points[i])]]

\* RandomizedTarget::default()
DefaultRandomizedTarget ==
    [random_modifier |-> 0, target |-> Identity, share_targets |-> <<>>]

\* RandomizedTarget::get_checksum_point_for_validation(sum): the point C with
\* sum + C = random_modifier * G.
get_checksum_point_for_validation(rt, s) ==
    PointSub(PointMul(rt.random_modifier, BasePoint), s)

\* RandomizedTarget::validate_responses(verifier)
validate_responses(rt, verifier) == verifier = rt.target

\* RandomizedTarget::is_keyserver_response_valid(keyserver_ids, id, sum)
is_keyserver_response_valid(rt, keyserver_ids, id, s) ==
    /\ id \in DOMAIN rt.share_targets
    /\ s = PointMul(langrange_coefficient_for_id(keyserver_ids, id), rt.share_targets[id])

---------------------------------------------------------------------------
(* QueryState (prf.rs).                                                    *)

\* Query::sentinel()
QuerySentinel == CompressedDefault

\* from_rp that exposes the point itself as the query
from_rp_unblinded(point, required_keyholders, verification_factor, blinding_factor) ==
    [required_keyholders |-> required_keyholders,
     blinding_factor     |-> blinding_factor,
     verification_factor |-> verification_factor,
     query               |-> Compress(point),
     responses           |-> <<>>]

\* QueryState::from_rp(point, required_keyholders, verification_factor); the
\* blinding factor is the scalar drawn from OsRng.
from_rp(point, required_keyholders, verification_factor, blinding_factor) ==
    [required_keyholders |-> required_keyholders,
     blinding_factor     |-> blinding_factor,
     verification_factor |-> verification_factor,
     query               |-> Compress(PointMul(blinding_factor, point)),
     responses           |-> <<>>]

\* incorporate_response that keeps one response per keyserver id
qs_incorporate_response_dedup(qs, i, p) ==
    IF \E j \in 1 .. Len(qs.responses) : qs.responses[j][1] = i
    THEN [qs EXCEPT !.responses =
             [j \in 1 .. Len(@) |-> IF @[j][1] = i THEN <<i, p>> ELSE @[j]]]
    ELSE [qs EXCEPT !.responses = Append(@, <<i, p>>)]

\* QueryState::incorporate_response(i, p)
qs_incorporate_response(qs, i, p) ==
    [qs EXCEPT !.responses = Append(@, <<i, p>>)]

\* has_hash that is content with a single response
has_hash_any_response(qs) == Len(qs.responses) >= 1

\* QueryState::has_hash
has_hash(qs) == Len(qs.responses) >= qs.required_keyholders

RECURSIVE SumHashParts(_)
SumHashParts(responses) ==
    IF responses = <<>> THEN Identity
    ELSE PointAdd(to_rp(responses[1][2]), SumHashParts(Tail(responses)))

\* calculate_hash_value that multiplies by the blinding factor itself
calculate_hash_value_uninverted(qs) ==
    IF has_hash(qs)
    THEN Some(PointMul(qs.blinding_factor, SumHashParts(qs.responses)))
    ELSE None

\* QueryState::calculate_hash_value
calculate_hash_value(qs) ==
    IF has_hash(qs)
    THEN Some(PointMul(ScalarInvert(qs.blinding_factor), SumHashParts(qs.responses)))
    ELSE None

\* QueryState::get_hash_value
get_hash_value(qs) ==
    IF calculate_hash_value(qs) = None THEN None
    ELSE Some(Compress(Unwrap(calculate_hash_value(qs))))

\* QueryState::get_hash_value_and_verification_value
get_hash_value_and_verification_value(qs) ==
    IF calculate_hash_value(qs) = None THEN None
    ELSE LET hv == Unwrap(calculate_hash_value(qs))
         IN  Some([hash     |-> Compress(hv),
                   verifier |-> DoubleScalarMulBasepoint(qs.verification_factor, hv, 0)])

---------------------------------------------------------------------------
(* The zkVM guest programs hash-proof and checksum-proof.  A guest returns *)
(* whether it halted with a failure and the public values it committed.    *)

RECURSIVE HashProofLoop(_, _)
\* hash_proof main, the loop: reads the stream from position pos on and
\* returns the queries committed, or None when a read or an expect fails.
HashProofLoop(stdin, pos) ==
    IF pos > Len(stdin) THEN None
    ELSE IF stdin[pos] = <<>> THEN Some(<<>>)
    ELSE IF pos + 1 > Len(stdin) THEN None
    ELSE LET bytes == stdin[pos]
             blinding_factor == ScalarFromCanonicalBytes(stdin[pos + 1])
             rest == HashProofLoop(stdin, pos + 2)
         IN  IF blinding_factor = None \/ rest = None THEN None
             ELSE Some(<<Compress(PointMul(Unwrap(blinding_factor),
                                           PointHashFromBytes(bytes)))>>
                       \o Unwrap(rest))

\* hash_proof main
HashProofMain(stdin) ==
    LET committed == HashProofLoop(stdin, 1)
    IN  IF committed = None THEN [halted |-> TRUE, public_values |-> <<>>]
        ELSE [halted |-> FALSE,
              public_values |-> Append(Unwrap(committed), QuerySentinel)]

\* checksum_proof main with x_0 = checksum * verification_factor_0
ChecksumProofMainNoInvert(stdin) ==
    LET hashed_concat_quries == ScalarFromCanonicalBytes(stdin[1])
        key == stdin[2]
        sum_point == Decompress(stdin[3])
        verification_factor_0 == ScalarFromCanonicalBytes(stdin[4])
        blinding_factor == ScalarFromCanonicalBytes(stdin[5])
    IN  IF \/ hashed_concat_quries = None \/ sum_point = None
           \/ verification_factor_0 = None \/ blinding_factor = None
        THEN [halted |-> TRUE, public_values |-> <<>>]
        ELSE LET rt == randomized_target_of(key, Unwrap(hashed_concat_quries))
                 checksum == get_checksum_point_for_validation(rt, Unwrap(sum_point))
                 x_0 == PointMul(Unwrap(verification_factor_0), checksum)
                 query == Compress(PointMul(Unwrap(blinding_factor), x_0))
             IN  [halted |-> FALSE, public_values |-> <<query>>]

\* checksum_proof main
ChecksumProofMain(stdin) ==
    LET hashed_concat_quries == ScalarFromCanonicalBytes(stdin[1])
        key == stdin[2]
        sum_point == Decompress(stdin[3])
        verification_factor_0 == ScalarFromCanonicalBytes(stdin[4])
        blinding_factor == ScalarFromCanonicalBytes(stdin[5])
    IN  IF \/ hashed_concat_quries = None \/ sum_point = None
           \/ verification_factor_0 = None \/ blinding_factor = None
        THEN [halted |-> TRUE, public_values |-> <<>>]
        ELSE LET rt == randomized_target_of(key, Unwrap(hashed_concat_quries))
                 checksum == get_checksum_point_for_validation(rt, Unwrap(sum_point))
                 x_0 == PointMul(ScalarInvert(Unwrap(verification_factor_0)), checksum)
                 query == Compress(PointMul(Unwrap(blinding_factor), x_0))
             IN  [halted |-> FALSE, public_values |-> <<query>>]

---------------------------------------------------------------------------
(* QueryStateSet (prf.rs).                                                 *)

\* 2u32.pow(SECURITY_PARAMETER)
verification_factor_max == 2 ^ SECURITY_PARAMETER

\* rng.gen_range(0u32..=verification_factor_max)
VerificationFactors == 0 .. verification_factor_max

\* Scalar::random(&mut OsRng): uniform over the scalars.  The draw of zero has
\* probability 1/order, 2^-252 in the source, and is left out, as is the
\* identity among the outputs of the hashes to the group and to the scalars.
RandomScalars == Scalars \ {0}

\* from_iter pushing the states of the items in reverse order
FromIterQuerystatesReversed(items, required_keyholders, rs, vs) ==
    [i \in 1 .. Len(items) |->
        [tag |-> Some(items[Len(items) + 1 - i].tag),
         qs  |-> from_rp(PointHashFromBytes(items[Len(items) + 1 - i].bytes),
                         required_keyholders, vs[Len(items) + 1 - i],
                         rs[Len(items) + 1 - i])]]

\* from_iter, the loop over the items: the tagged query states
FromIterQuerystates(items, required_keyholders, rs, vs) ==
    [i \in 1 .. Len(items) |->
        [tag |-> Some(items[i].tag),
         qs  |-> from_rp(PointHashFromBytes(items[i].bytes),
                         required_keyholders, vs[i], rs[i])]]

RECURSIVE FromIterSum(_, _)
\* from_iter, the loop over the items: sum of verification_factor * point
FromIterSum(items, vs) ==
    IF items = <<>> THEN Identity
    ELSE LET n == Len(items)
         IN  PointAdd(FromIterSum(SubSeq(items, 1, n - 1), vs),
                      DoubleScalarMulBasepoint(vs[n], PointHashFromBytes(items[n].bytes), 0))

RECURSIVE FromIterHashStdin(_, _)
\* from_iter, the loop over the items: the bytes and the blinding factor of
\* each item, written to hash_stdin
FromIterHashStdin(items, rs) ==
    IF items = <<>> THEN <<>>
    ELSE LET n == Len(items)
         IN  FromIterHashStdin(SubSeq(items, 1, n - 1), rs)
                \o <<items[n].bytes, ScalarToBytes(rs[n])>>

\* QueryStateSet::queries
queries(qss) == [i \in 1 .. Len(qss) |-> qss[i].qs.query]

\* CompressedRistretto::as_bytes: the fixed-width bytes of a compressed point
as_bytes(c) == <<c % ByteBase, c \div ByteBase>>

\* from_iter with a concat_queries buffer that holds only the last query
ConcatQueriesLastOnly(qs) ==
    IF qs = <<>> THEN <<>> ELSE as_bytes(qs[Len(qs)])

RECURSIVE ConcatQueries(_)
\* from_iter, the loop over the items: concat_queries, extended by the bytes
\* of each query in turn
ConcatQueries(qs) ==
    IF qs = <<>> THEN <<>>
    ELSE ConcatQueries(SubSeq(qs, 1, Len(qs) - 1)) \o as_bytes(qs[Len(qs)])

\* QueryStateSet::from_iter with the factors it draws: rs, vs for the items,
\* r0, v0 for the checksum state.
from_iter(items, required_keyholders, key, rs, vs, r0, v0) ==
    LET states == FromIterQuerystates(items, required_keyholders, rs, vs)
        the_sum == FromIterSum(items, vs)
        h_stdin == Append(FromIterHashStdin(items, rs), <<>>)
        h_run == HashProofMain(h_stdin)
        concat_queries == ConcatQueries(queries(states))
        hashed_concat_quries == ScalarHashFromBytes(concat_queries)
        rt == randomized_target_of(key, hashed_concat_quries)
        checksum == get_checksum_point_for_validation(rt, the_sum)
        x_0 == PointMul(ScalarInvert(v0), checksum)
        local_checksum_state == from_rp(x_0, required_keyholders, v0, r0)
        c_stdin == <<ScalarToBytes(hashed_concat_quries), key, Compress(the_sum),
                     ScalarToBytes(v0), ScalarToBytes(local_checksum_state.blinding_factor)>>
        c_run == ChecksumProofMain(c_stdin)
    IN  [panicked               |-> h_run.halted \/ c_run.halted,
         querystates            |-> Append(states, [tag |-> None, qs |-> local_checksum_state]),
         randomized_target      |-> rt,
         sum                    |-> the_sum,
         hash_stdin             |-> h_stdin,
         checksum_stdin         |-> c_stdin,
         hash_public_values     |-> h_run.public_values,
         checksum_public_values |-> c_run.public_values]

\* QueryStateSet::all_have_hash
all_have_hash(qss) == \A i \in 1 .. Len(qss) : has_hash(qss[i].qs)

\* HashTag::default()
DefaultTag == 0

\* Option<HashTag>::unwrap_or_default
unwrap_or_default(tag) == IF tag = None THEN DefaultTag ELSE Unwrap(tag)

RECURSIVE SortedSeq(_)
\* ascending iteration of a BTreeMap's keys
SortedSeq(S) ==
    IF S = {} THEN <<>>
    ELSE LET m == CHOOSE x \in S : \A y \in S : x <= y
         IN  <<m>> \o SortedSeq(S \ {m})

RECURSIVE SumResponsesOf(_, _, _)
\* the sum over a state's responses by keyserver id of hash * modification
SumResponsesOf(responses, id, modification) ==
    IF responses = <<>> THEN Identity
    ELSE PointAdd(IF responses[1][1] = id
                  THEN PointMul(modification, to_rp(responses[1][2]))
                  ELSE Identity,
                  SumResponsesOf(Tail(responses), id, modification))

RECURSIVE IndividualSum(_, _)
\* find_keyservers_with_invalid_contribution: individual_sums[id]
IndividualSum(qss, id) ==
    IF qss = <<>> THEN Identity
    ELSE LET qs == qss[1].qs
             modification == ScalarMul(ScalarInvert(qs.blinding_factor),
                                       qs.verification_factor)
         IN  PointAdd(SumResponsesOf(qs.responses, id, modification),
                      IndividualSum(Tail(qss), id))

\* the keyserver ids with a response in some state
RespondedIds(qss) ==
    UNION {{qss[i].qs.responses[j][1] : j \in 1 .. Len(qss[i].qs.responses)} :
              i \in 1 .. Len(qss)}

\* find_keyservers_with_invalid_contribution that looks only at the keyserver
\* whose response came first
find_keyservers_first_response_only(qss, rt) ==
    LET keyservers == RespondedIds(qss)
        first == {qss[i].qs.responses[1][1] :
                     i \in {j \in 1 .. Len(qss) : qss[j].qs.responses # <<>>}}
    IN  SortedSeq({id \in first :
                      ~is_keyserver_response_valid(rt, keyservers, id,
                                                   IndividualSum(qss, id))})

\* find_keyservers_with_invalid_contribution that collects the ids in a list,
\* in the order of the responses of the first state, instead of a BTreeMap
find_keyservers_in_response_order(qss, rt) ==
    LET keyservers == RespondedIds(qss)
        ids == IF qss = <<>> THEN <<>>
               ELSE [j \in 1 .. Len(qss[1].qs.responses) |-> qss[1].qs.responses[j][1]]
    IN  SelectSeq(ids, LAMBDA id :
                      ~is_keyserver_response_valid(rt, keyservers, id,
                                                   IndividualSum(qss, id)))

\* QueryStateSet::find_keyservers_with_invalid_contribution
find_keyservers_with_invalid_contribution(qss, rt) ==
    LET keyservers == RespondedIds(qss)
    IN  SortedSeq({id \in keyservers :
                      ~is_keyserver_response_valid(rt, keyservers, id,
                                                   IndividualSum(qss, id))})

RECURSIVE SumVerifiers(_)
\* get_hash_values: the fold of the verification values
SumVerifiers(qss) ==
    IF qss = <<>> THEN Identity
    ELSE PointAdd(Unwrap(get_hash_value_and_verification_value(qss[1].qs)).verifier,
                  SumVerifiers(Tail(qss)))

\* get_hash_values that returns the hashes of all the elements of the set
get_hash_values_keep_last(qss, rt) ==
    IF ~all_have_hash(qss)
    THEN [kind |-> "MissingKeyserverResponse", hashes |-> <<>>, guilty |-> <<>>]
    ELSE LET hashes == [i \in 1 .. Len(qss) |->
                           [tag  |-> unwrap_or_default(qss[i].tag),
                            hash |-> Unwrap(get_hash_value_and_verification_value(
                                                qss[i].qs)).hash]]
             verifier == SumVerifiers(qss)
         IN  IF validate_responses(rt, verifier)
             THEN [kind |-> "Ok", hashes |-> hashes, guilty |-> <<>>]
             ELSE [kind   |-> "ValidationFailed",
                   hashes |-> <<>>,
                   guilty |-> find_keyservers_with_invalid_contribution(qss, rt)]

\* QueryStateSet::get_hash_values
get_hash_values(qss, rt) ==
    IF ~all_have_hash(qss)
    THEN [kind |-> "MissingKeyserverResponse", hashes |-> <<>>, guilty |-> <<>>]
    ELSE LET hashes == [i \in 1 .. Len(qss) |->
                           [tag  |-> unwrap_or_default(qss[i].tag),
                            hash |-> Unwrap(get_hash_value_and_verification_value(
                                                qss[i].qs)).hash]]
             verifier == SumVerifiers(qss)
         IN  IF validate_responses(rt, verifier)
             THEN [kind   |-> "Ok",
                   hashes |-> SubSeq(hashes, 1, Len(hashes) - 1),
                   guilty |-> <<>>]
             ELSE [kind   |-> "ValidationFailed",
                   hashes |-> <<>>,
                   guilty |-> find_keyservers_with_invalid_contribution(qss, rt)]

\* incorporate_response whose loop stops before the last state of the set
incorporate_response_skip_last(qss, id, parts) ==
    IF Len(parts) # Len(qss) THEN qss
    ELSE [i \in 1 .. Len(qss) |->
            IF i = Len(qss) THEN qss[i]
            ELSE [qss[i] EXCEPT !.qs = qs_incorporate_response(@, id, parts[i])]]

\* incorporate_response that hands out the parts it was given before it
\* looks at their number
incorporate_response_push_first(qss, id, parts) ==
    [i \in 1 .. Len(qss) |->
        IF i <= Len(parts)
        THEN [qss[i] EXCEPT !.qs = qs_incorporate_response(@, id, parts[i])]
        ELSE qss[i]]

\* QueryStateSet::incorporate_response: the set after the call
incorporate_response(qss, id, parts) ==
    IF Len(parts) # Len(qss) THEN qss
    ELSE [i \in 1 .. Len(qss) |->
            [qss[i] EXCEPT !.qs = qs_incorporate_response(@, id, parts[i])]]

\* QueryStateSet::incorporate_response: the value returned
incorporate_response_result(qss, id, parts) ==
    IF Len(parts) # Len(qss)
    THEN [kind |-> "WrongSizeResponse", hashes |-> <<>>, guilty |-> <<>>]
    ELSE [kind |-> "Incorporated", hashes |-> <<>>, guilty |-> <<>>]

---------------------------------------------------------------------------
(* Serialization of the QueryStateSet (prf.rs).                            *)

\* HashTag::as_bytes
tag_as_bytes(tag) == <<tag % ByteBase, tag \div ByteBase>>

\* HashTag::from_bytes
tag_from_bytes(bytes) == BytesValue(bytes)

\* to_serializable that writes the factors and the query but not the responses
to_serializable_without_responses(qs) ==
    [required_keyholders |-> qs.required_keyholders,
     blinding_factor     |-> ScalarToBytes(qs.blinding_factor),
     verification_factor |-> ScalarToBytes(qs.verification_factor),
     query               |-> qs.query,
     responses           |-> <<>>]

\* QueryState::to_serializable
to_serializable(qs) ==
    [required_keyholders |-> qs.required_keyholders,
     blinding_factor     |-> ScalarToBytes(qs.blinding_factor),
     verification_factor |-> ScalarToBytes(qs.verification_factor),
     query               |-> qs.query,
     responses           |-> qs.responses]

\* RandomizedTarget::to_serializable_randomized_target
to_serializable_randomized_target(rt) ==
    [random_modifier |-> ScalarToBytes(rt.random_modifier),
     target          |-> Compress(rt.target),
     share_targets   |-> [i \in DOMAIN rt.share_targets |-> Compress(rt.share_targets[i])]]

\* SerializableRandomizedTarget::to_randomized_target
to_randomized_target(srt) ==
    [random_modifier |-> ScalarFromBytesModOrder(srt.random_modifier),
     target          |-> to_rp(srt.target),
     share_targets   |-> [i \in DOMAIN srt.share_targets |-> to_rp(srt.share_targets[i])]]

\* QueryStateSet::to_serializable_set
to_serializable_set(qss, rt) ==
    [querystates       |-> [i \in 1 .. Len(qss) |->
                               [tag |-> tag_as_bytes(unwrap_or_default(qss[i].tag)),
                                qs  |-> to_serializable(qss[i].qs)]],
     randomized_target |-> to_serializable_randomized_target(rt)]

\* to_query_state_set with the two factors read from each other's field
to_query_state_set_swapped(sqss) ==
    [querystates       |->
        [i \in 1 .. Len(sqss.querystates) |->
            LET sqs == sqss.querystates[i].qs
            IN  [tag |-> Some(tag_from_bytes(sqss.querystates[i].tag)),
                 qs  |-> [required_keyholders |-> sqs.required_keyholders,
                          blinding_factor     |-> ScalarFromBytesModOrder(sqs.verification_factor),
                          verification_factor |-> ScalarFromBytesModOrder(sqs.blinding_factor),
                          query               |-> sqs.query,
                          responses           |-> sqs.responses]]],
     randomized_target |-> to_randomized_target(sqss.randomized_target)]

\* SerializableQueryStateSet::to_query_state_set
to_query_state_set(sqss) ==
    [querystates       |->
        [i \in 1 .. Len(sqss.querystates) |->
            LET sqs == sqss.querystates[i].qs
            IN  [tag |-> Some(tag_from_bytes(sqss.querystates[i].tag)),
                 qs  |-> [required_keyholders |-> sqs.required_keyholders,
                          blinding_factor     |-> ScalarFromBytesModOrder(sqs.blinding_factor),
                          verification_factor |-> ScalarFromBytesModOrder(sqs.verification_factor),
                          query               |-> sqs.query,
                          responses           |-> sqs.responses]]],
     randomized_target |-> to_randomized_target(sqss.randomized_target)]

---------------------------------------------------------------------------
(* The zkVM guest program verification-proof.                              *)

\* The verifying keys of the guest programs (client.setup(ELF)), and the key
\* of some other program.
HashVk == "hash_proof"
ChecksumVk == "checksum_proof"
VerificationVk == "verification_proof"
OtherVk == "other_program"

\* sp1_zkvm::lib::verify::verify_sp1_proof(vkey, digest of public_values): it
\* returns when a proof of the program vkey with these public values is among
\* the proofs witnessed to the run, and halts the guest otherwise.
verify_sp1_proof(vkey, public_values, proofs) ==
    [vk |-> vkey, public_values |-> public_values] \in proofs

\* PackedRistrettos<HashPart>::iter_decoded, collected: the parts, or None
\* when a part is not the encoding of a point (try_from_buf).
iter_decoded(packed) ==
    IF \E i \in 1 .. Len(packed) : Decompress(packed[i]) = None THEN None
    ELSE Some(packed)

RECURSIVE VerificationProofIncorporate(_, _)
\* verification_proof main, the loop over keyserver_responses: the set after
\* the loop, or None when the loop returns from main.
VerificationProofIncorporate(qss, keyserver_responses) ==
    IF keyserver_responses = <<>> THEN Some(qss)
    ELSE LET id == keyserver_responses[1][1]
             parts == iter_decoded(keyserver_responses[1][2])
         IN  IF parts = None THEN None
             ELSE IF incorporate_response_result(qss, id, Unwrap(parts)).kind
                        = "WrongSizeResponse"
             THEN None
             ELSE VerificationProofIncorporate(
                      incorporate_response(qss, id, Unwrap(parts)),
                      Tail(keyserver_responses))

\* verification_proof main: whether the run halted with a failure, and the
\* public values committed.
VerificationProofMain(stdin) ==
    LET querystate == to_query_state_set(stdin.querystate)
    IN  IF Len(stdin.vkeys) # Len(stdin.public_values)
        THEN [halted |-> TRUE, public_values |-> <<>>]
        ELSE IF \E i \in 1 .. Len(stdin.vkeys) :
                   ~verify_sp1_proof(stdin.vkeys[i], stdin.public_values[i], stdin.proofs)
        THEN [halted |-> TRUE, public_values |-> <<>>]
        ELSE LET incorporated ==
                     VerificationProofIncorporate(querystate.querystates,
                                                  stdin.keyserver_responses)
             IN  IF incorporated = None
                 THEN [halted |-> FALSE, public_values |-> <<TRUE>>]
                 ELSE LET hash_values ==
                              get_hash_values(Unwrap(incorporated),
                                              querystate.randomized_target)
                      IN  IF hash_values.kind # "Ok"
                          THEN [halted |-> FALSE, public_values |-> <<TRUE>>]
                          ELSE [halted |-> FALSE,
                                public_values |-> <<TRUE, hash_values.hashes>>]

---------------------------------------------------------------------------
(* The host's incorporation routine (incorporate.rs).                      *)

RECURSIVE IncorporateResponsesLoop(_, _)
\* incorporate_responses_and_hash, the loop over keyserver_responses: how the
\* loop ends and the set as it stands then.
IncorporateResponsesLoop(qss, keyserver_responses) ==
    IF keyserver_responses = <<>> THEN [kind |-> "Incorporated", querystates |-> qss]
    ELSE LET id == keyserver_responses[1][1]
             parts == iter_decoded(keyserver_responses[1][2])
         IN  IF parts = None THEN [kind |-> "DecodeError", querystates |-> qss]
             ELSE IF incorporate_response_result(qss, id, Unwrap(parts)).kind
                        = "WrongSizeResponse"
             THEN [kind |-> "WrongSizeResponse", querystates |-> qss]
             ELSE IncorporateResponsesLoop(
                      incorporate_response(qss, id, Unwrap(parts)),
                      Tail(keyserver_responses))

\* incorporate_responses_and_hash(request_ctx, querystate, keyserver_responses):
\* the value returned ("panic" when the expect on get_hash_values fails), the
\* hashes, and the set as the routine leaves it.
incorporate_responses_and_hash(qss, rt, keyserver_responses) ==
    LET looped == IncorporateResponsesLoop(qss, keyserver_responses)
    IN  IF looped.kind # "Incorporated"
        THEN [kind |-> looped.kind, hashes |-> <<>>, querystates |-> looped.querystates]
        ELSE LET hash_values == get_hash_values(looped.querystates, rt)
             IN  IF hash_values.kind = "Ok"
                 THEN [kind |-> "Ok", hashes |-> hash_values.hashes,
                       querystates |-> looped.querystates]
                 ELSE [kind |-> "panic", hashes |-> <<>>,
                       querystates |-> looped.querystates]

---------------------------------------------------------------------------
(* The HDB screening endpoints (screening.rs).                             *)

Cookies == {"c1", "c2"}

JsonContentType == "application/json"
TaggedHashContentType == "TaggedHash::CONTENT_TYPE"

\* the ristretto_data payloads of the requests: lists of tagged hashes
Payloads == {<<[tag |-> 1, hash |-> 2]>>,
             <<[tag |-> 1, hash |-> 2], [tag |-> 2, hash |-> 4]>>}

\* The proofs a requester can attach: a proof of the verification-proof
\* program that commits the first payload, a proof of another program, and a
\* byte string that proves nothing.
AttachedProofs ==
    {[vk |-> VerificationVk,
      public_values |-> <<TRUE, <<[tag |-> 1, hash |-> 2]>>>>, valid |-> TRUE],
     [vk |-> OtherVk, public_values |-> <<>>, valid |-> TRUE],
     [vk |-> VerificationVk,
      public_values |-> <<TRUE, <<[tag |-> 1, hash |-> 2]>>>>, valid |-> FALSE]}

\* ProverClient::verify(proof, vk)
client_verify(proof, vk) == proof.valid /\ proof.vk = vk

NoVerification == [proof |-> [vk |-> "", public_values |-> <<>>, valid |-> FALSE],
                   vk |-> ""]

\* the entry logged for a handled request
Handled(endpoint, request, verified, outcome, lookups) ==
    [endpoint |-> endpoint, request |-> request, verified |-> verified,
     outcome |-> outcome, lookups |-> lookups]

\* SessionTable::take_session
take_session(clients, cookie) == [c \in DOMAIN clients \ {cookie} |-> clients[c]]

\* SessionTable::add_session: the table with the state stored under the
\* cookie, refused when the cookie has a state already
add_session(clients, cookie, state) ==
    IF cookie \in DOMAIN clients
    THEN [ok |-> FALSE, clients |-> clients]
    ELSE [ok |-> TRUE,
          clients |-> [c \in DOMAIN clients \cup {cookie} |->
                          IF c = cookie THEN state ELSE clients[c]]]

\* the requests the HDB serves at the same time
Requests == 1 .. MaxRequests

\* the number of permits of the hdb_queries semaphore
HdbQueriesPermits == 3

\* HdbServerState.parallelism_per_request
parallelism_per_request == 2

\* a request that has not arrived
NoTask == [pc |-> "idle", endpoint |-> "", cookie |-> "", ristretto_data |-> <<>>,
           client_state |-> None, obtained |-> FALSE, stored |-> FALSE,
           lookups |-> <<>>, last_record |-> None, hash_ids |-> <<>>,
           hdb_responses |-> <<>>, outcome |-> ""]

\* The part the two screening endpoints share, from check_content_length to
\* the hazard lookups: the outcome and the hashes looked up with query_hdb.
Screen(et_state, ristretto_data, throttled) ==
    IF throttled THEN [outcome |-> "Throttled", lookups |-> <<>>]
    ELSE IF et_state \in {"AwaitingEtSize", "PromisedEt"}
    THEN [outcome |-> "ScreenBeforeEt", lookups |-> <<>>]
    ELSE IF et_state = "EtNeedsHashes"
    THEN [outcome |-> "ScreenBeforeEtHashes", lookups |-> <<>>]
    ELSE [outcome |-> "Ok", lookups |-> ristretto_data]

\* scep_endpoint_screen_and_verify
ScepEndpointScreenAndVerify ==
    /\ Len(hdb_log) < MaxRequests
    /\ \E content_type \in {JsonContentType, TaggedHashContentType},
          cookie \in Cookies, ristretto_data \in Payloads,
          proof \in AttachedProofs, vk \in {VerificationVk, OtherVk},
          throttled \in BOOLEAN :
         LET request == [content_type |-> content_type, cookie |-> cookie,
                         ristretto_data |-> ristretto_data,
                         verification |-> [proof |-> proof, vk |-> vk]]
             endpoint == "screen_and_verify"
         IN  IF content_type # JsonContentType
             THEN /\ ~throttled
                  /\ hdb_log' = Append(hdb_log, Handled(endpoint, request, FALSE,
                                                        "InvalidMessage", <<>>))
                  /\ UNCHANGED hdb_clients
             ELSE IF cookie \notin DOMAIN hdb_clients
             THEN /\ ~throttled
                  /\ hdb_log' = Append(hdb_log, Handled(endpoint, request, FALSE,
                                                        "InvalidMessage", <<>>))
                  /\ UNCHANGED hdb_clients
             ELSE IF ~client_verify(proof, vk)
             THEN /\ ~throttled
                  /\ hdb_clients' = take_session(hdb_clients, cookie)
                  /\ hdb_log' = Append(hdb_log, Handled(endpoint, request, FALSE,
                                                        "panic", <<>>))
             ELSE \E screened \in {Screen(hdb_clients[cookie], ristretto_data, throttled)} :
                  /\ hdb_clients' = take_session(hdb_clients, cookie)
                  /\ hdb_log' = Append(hdb_log, Handled(endpoint, request, TRUE,
                                                        screened.outcome, screened.lookups))
    /\ UNCHANGED <<clientVars, guestVars, taskVars, processVars>>

\* scep_endpoint_screen
ScepEndpointScreen ==
    /\ Len(hdb_log) < MaxRequests
    /\ \E content_type \in {JsonContentType, TaggedHashContentType},
          cookie \in Cookies, ristretto_data \in Payloads, throttled \in BOOLEAN :
         LET request == [content_type |-> content_type, cookie |-> cookie,
                         ristretto_data |-> ristretto_data,
                         verification |-> NoVerification]
             endpoint == "screen"
         IN  IF content_type # TaggedHashContentType
             THEN /\ ~throttled
                  /\ hdb_log' = Append(hdb_log, Handled(endpoint, request, FALSE,
                                                        "InvalidMessage", <<>>))
                  /\ UNCHANGED hdb_clients
             ELSE IF cookie \notin DOMAIN hdb_clients
             THEN /\ ~throttled
                  /\ hdb_log' = Append(hdb_log, Handled(endpoint, request, FALSE,
                                                        "InvalidMessage", <<>>))
                  /\ UNCHANGED hdb_clients
             ELSE \E screened \in {Screen(hdb_clients[cookie], ristretto_data, throttled)} :
                  /\ hdb_clients' = take_session(hdb_clients, cookie)
                  /\ hdb_log' = Append(hdb_log, Handled(endpoint, request, FALSE,
                                                        screened.outcome, screened.lookups))
    /\ UNCHANGED <<clientVars, guestVars, taskVars, processVars>>

---------------------------------------------------------------------------
(* The batch protocol: committee setup, from_iter, keyserver responses,    *)
(* finalization.                                                           *)

\* The byte strings handed to from_iter (the unit tests hash a fixed list of
\* strings that includes the empty string).
Messages == {<<>>, <<1>>}

Batches == UNION {[1 .. n -> Messages] : n \in 0 .. MaxBatch}

\* hash_via_keyshares: the items are tagged by their position
Items(batch) == [i \in 1 .. Len(batch) |-> [tag |-> i, bytes |-> batch[i]]]

\* corrupt_keyservers_by_index replaces a share by another scalar
Corrupt(share) == ScalarAdd(share, 1)

NoResult == [kind |-> "", hashes |-> <<>>, guilty |-> <<>>]

NoStdin == [vkeys |-> <<>>, public_values |-> <<>>, proofs |-> {},
            querystate |-> to_serializable_set(<<>>, DefaultRandomizedTarget),
            keyserver_responses |-> <<>>]

NotRun == [executed |-> FALSE, halted |-> FALSE, public_values |-> <<>>]

\* KeyShares::random: a secret, its k-of-n shares, the chosen quorum Q and
\* the subset B of the quorum whose shares are corrupted afterwards.
Committee(secret, k, n, random_points, Q, B) ==
    LET shares == generate_keyshares(secret, k, n, random_points).keyshares
    IN  [secret              |-> secret,
         required_keyholders |-> k,
         num_keyholders      |-> n,
         keyshares           |-> shares,
         held                |-> [i \in 1 .. n |->
                                     IF i \in B THEN Corrupt(shares[i]) ELSE shares[i]],
         quorum              |-> Q,
         corrupted           |-> B]

\* The committees of the protocol runs: 2-of-MaxKeyholders, the quorum made
\* of the first and the last keyserver, at most one corrupted member.
Committees ==
    {Committee(2, 2, MaxKeyholders, <<4>>, {1, MaxKeyholders}, B) :
        B \in {{}, {MaxKeyholders}}}

\* the client before process is called
NotCalled ==
    [pc |-> "idle", sequences |-> <<>>, ets |-> <<>>, hash_spec |-> None, windows |-> None,
     stage |-> "main", hashed |-> <<>>, built |-> <<>>, keyserver_queries |-> <<>>,
     hdb_requests |-> <<>>, outcome |-> None]

\* the state before any call, for the session tables the HDB may hold
InitWithSessions(committees, batches, tables) ==
    \E committee \in committees, batch \in batches, table \in tables :
        /\ keys = committee
        /\ active_security_key =
               from_secret_and_keyshares(committee.secret, committee.keyshares)
        /\ messages = Items(batch)
        /\ pc = "init"
        /\ querystates = <<>>
        /\ randomized_target = DefaultRandomizedTarget
        /\ hash_stdin = <<>>
        /\ checksum_stdin = <<>>
        /\ hash_public_values = <<>>
        /\ checksum_public_values = <<>>
        /\ sum = Identity
        /\ calls = 0
        /\ result = NoResult
        /\ verification_stdin = NoStdin
        /\ verification_run = NotRun
        /\ hdb_clients = table
        /\ hdb_log = <<>>
        /\ hdb_tasks = [t \in Requests |-> NoTask]
        /\ hdb_clients_writer = 0
        /\ hdb_queries = HdbQueriesPermits
        /\ doprf_process = NotCalled

\* the session table after the authentication of two clients, one of which
\* asked for an exemption
AuthenticatedSessions == [c \in Cookies |-> IF c = "c1" THEN "NoEt" ELSE "AwaitingEtSize"]

InitWith(committees, batches) ==
    InitWithSessions(committees, batches, {AuthenticatedSessions})

Init == InitWith(Committees, Batches)

\* QueryStateSet::from_iter(messages, required_keyholders, active_security_key),
\* the blinding factors drawn from R and the verification factors from V.
FromIter(R, V) ==
    /\ pc = "init"
    /\ \E rs \in [1 .. Len(messages) -> R], vs \in [1 .. Len(messages) -> V],
          r0 \in R, v0 \in V :
         \E out \in {from_iter(messages, keys.required_keyholders,
                              active_security_key, rs, vs, r0, v0)} :
             /\ pc' = IF out.panicked THEN "panicked" ELSE "built"
             /\ querystates' = out.querystates
             /\ randomized_target' = out.randomized_target
             /\ sum' = out.sum
             /\ hash_stdin' = out.hash_stdin
             /\ checksum_stdin' = out.checksum_stdin
             /\ hash_public_values' = out.hash_public_values
             /\ checksum_public_values' = out.checksum_public_values
    /\ UNCHANGED <<keys, active_security_key, messages, calls, result, guestVars, hdbVars,
                   processVars>>

\* The answer of keyserver id to the queries of the set (hash_via_keyshares):
\* one HashPart per query, under the share the keyserver holds.
KeyserverPartsFor(qss, id) ==
    LET coeff == langrange_coefficient_for_id(keys.quorum, id)
    IN  [i \in 1 .. Len(qss) |->
            apply_query_and_lagrange_coefficient(keys.held[id], qss[i].qs.query, coeff)]

KeyserverParts(id) == KeyserverPartsFor(querystates, id)

\* querystates.incorporate_response(id, parts) with the answer of keyserver
\* id, whole or one part short.
IncorporateResponse ==
    /\ pc = "built"
    /\ calls < MaxCalls
    /\ \E id \in keys.quorum, short \in BOOLEAN :
         LET whole == KeyserverParts(id)
             parts == IF short THEN SubSeq(whole, 1, Len(whole) - 1) ELSE whole
         IN  /\ querystates' = incorporate_response(querystates, id, parts)
             /\ result' = incorporate_response_result(querystates, id, parts)
    /\ calls' = calls + 1
    /\ UNCHANGED <<keys, active_security_key, messages, pc, randomized_target,
                   hash_stdin, checksum_stdin, hash_public_values,
                   checksum_public_values, sum, guestVars, hdbVars, processVars>>

\* get_hash_values that takes the responses out of the states it reads
GetHashValuesTakingResponses ==
    /\ pc = "built"
    /\ result' = get_hash_values(querystates, randomized_target)
    /\ querystates' = [i \in 1 .. Len(querystates) |->
                          [querystates[i] EXCEPT !.qs.responses = <<>>]]
    /\ UNCHANGED <<keys, active_security_key, messages, pc,
                   randomized_target, hash_stdin, checksum_stdin, hash_public_values,
                   checksum_public_values, sum, calls, guestVars, hdbVars, processVars>>

\* querystates.get_hash_values()
GetHashValues ==
    /\ pc = "built"
    /\ result' = get_hash_values(querystates, randomized_target)
    /\ UNCHANGED <<keys, active_security_key, messages, pc, querystates,
                   randomized_target, hash_stdin, checksum_stdin, hash_public_values,
                   checksum_public_values, sum, calls, guestVars, hdbVars, processVars>>

Next ==
    \/ FromIter(RandomScalars, VerificationFactors)
    \/ IncorporateResponse
    \/ GetHashValues

\* The batch protocol.
Spec == Init /\ [][Next]_vars

\* the blinding factors drawn in the runs of batch construction alone: with
\* the two hash-to-point values they give every query other than the identity
BatchRandomScalars == {1, 2}

NextBatch == FromIter(BatchRandomScalars, VerificationFactors)

\* Batch construction alone: from_iter and the two guest runs it makes.
SpecBatch == InitWith({Committee(2, 2, MaxKeyholders, <<4>>, {1, MaxKeyholders}, {})},
                      Batches)
             /\ [][NextBatch]_vars

\* the blinding factor drawn in the runs of the calls on a set: one whose
\* inverse is neither itself nor one
SetRandomScalars == {2}

NextSet ==
    \/ FromIter(SetRandomScalars, VerificationFactors)
    \/ IncorporateResponse
    \/ GetHashValues

\* The committees of the calls on one set: as Committees, with a control
\* point for which the two members of the quorum contribute different parts
\* of the secret, as two random shares do.
SetCommittees ==
    {Committee(2, 2, MaxKeyholders, <<1>>, {1, MaxKeyholders}, B) :
        B \in {{}, {MaxKeyholders}}}

\* The calls on one set: from_iter, then incorporate_response and
\* get_hash_values in any order.
SpecSet == InitWith(SetCommittees, Batches) /\ [][NextSet]_vars

---------------------------------------------------------------------------
(* Key generation (prf.rs).                                                *)

\* before generate_keyshares has been called
NoKeys ==
    [secret |-> 0, required_keyholders |-> 1, num_keyholders |-> 1,
     keyshares |-> <<>>, held |-> <<>>, quorum |-> {}, corrupted |-> {},
     control_points |-> <<>>]

\* generate_keyshares(&secret, required_keyholders, num_keyholders, rng) for
\* a secret, two nonzero sizes and the scalars the rng gives
GenerateKeyshares ==
    /\ pc = "init"
    /\ \E secret \in Scalars, k \in 1 .. MaxKeyholders, n \in 1 .. MaxKeyholders :
         \E random_points \in [1 .. k - 1 -> Scalars] :
           \E out \in {generate_keyshares(secret, k, n, random_points)} :
             /\ keys' = [secret |-> secret, required_keyholders |-> k,
                         num_keyholders |-> n, keyshares |-> out.keyshares,
                         held |-> out.keyshares, quorum |-> {}, corrupted |-> {},
                         control_points |-> <<secret>> \o random_points]
             /\ result' = [kind |-> IF out.err = "" THEN "Keyshares" ELSE out.err,
                           hashes |-> <<>>, guilty |-> <<>>]
    /\ pc' = "keyed"
    /\ UNCHANGED <<active_security_key, messages, querystates, randomized_target,
                   hash_stdin, checksum_stdin, hash_public_values,
                   checksum_public_values, sum, calls, guestVars, hdbVars, processVars>>

\* KeyShares::random: required_keyholders of the keyservers are chosen
ChooseKeyservers ==
    /\ pc = "keyed"
    /\ result.kind = "Keyshares"
    /\ \E chosen_keyservers \in SUBSET (1 .. keys.num_keyholders) :
         /\ Cardinality(chosen_keyservers) = keys.required_keyholders
         /\ keys' = [keys EXCEPT !.quorum = chosen_keyservers]
    /\ pc' = "chosen"
    /\ UNCHANGED <<active_security_key, messages, querystates, randomized_target,
                   hash_stdin, checksum_stdin, hash_public_values,
                   checksum_public_values, sum, calls, result, guestVars, hdbVars,
                   processVars>>

NextKeys == GenerateKeyshares \/ ChooseKeyservers

\* Key generation: generate_keyshares, then the choice of a quorum.
SpecKeys == InitWith({NoKeys}, {<<>>}) /\ [][NextKeys]_vars

---------------------------------------------------------------------------
(* Runs of the verification-proof guest on the witness a prover hands it.  *)

\* the proofs stored by an earlier run of the two guests, on an empty batch
StoredHashPublicValues == HashProofMain(<<<<>>>>).public_values

StoredChecksumPublicValues ==
    ChecksumProofMain(<<ScalarToBytes(1), active_security_key, Compress(Identity),
                        ScalarToBytes(1), ScalarToBytes(1)>>).public_values

SubProofs(vkeys, public_values, proven) ==
    [vkeys |-> vkeys, public_values |-> public_values,
     proofs |-> {[vk |-> vkeys[i], public_values |-> public_values[i]] : i \in proven}]

WindowStates == SubSeq(querystates, 1, Len(querystates) - 1)

ChecksumState == querystates[Len(querystates)].qs

\* A set a prover builds for the batch under a random modifier of its own
\* choice: the randomized target and the checksum state are derived from
\* modifier as from_iter derives them from the hash of the queries.
SetUnderModifier(modifier) ==
    LET rt == randomized_target_of(active_security_key, modifier)
        checksum == get_checksum_point_for_validation(rt, sum)
        x_0 == PointMul(ScalarInvert(ChecksumState.verification_factor), checksum)
    IN  [querystates |->
             Append(WindowStates,
                    [tag |-> None,
                     qs  |-> from_rp(x_0, keys.required_keyholders,
                                     ChecksumState.verification_factor,
                                     ChecksumState.blinding_factor)]),
         randomized_target |-> rt,
         checksum_public_values |->
             ChecksumProofMain(<<ScalarToBytes(modifier), active_security_key,
                                 Compress(sum),
                                 ScalarToBytes(ChecksumState.verification_factor),
                                 ScalarToBytes(ChecksumState.blinding_factor)>>).public_values]

\* a modifier other than the one from_iter derived
OtherModifier == (randomized_target.random_modifier % (L - 1)) + 1

\* The sets a prover can witness: the set from_iter built, and the set built
\* for the same batch under another modifier.
QueryStateSetWitnesses ==
    {[querystates |-> querystates, randomized_target |-> randomized_target,
      checksum_public_values |-> checksum_public_values],
     SetUnderModifier(OtherModifier)}

\* The verifying keys, public values and proofs a prover can witness for a
\* set: the proofs of the runs of the two guests for it, the proofs stored by
\* an earlier run, no proof at all, the proof of another program, public
\* values without a proof, and key and value lists of different lengths.
SubProofWitnesses(set) ==
    {SubProofs(<<HashVk, ChecksumVk>>,
               <<hash_public_values, set.checksum_public_values>>, {1, 2}),
     SubProofs(<<HashVk, ChecksumVk>>,
               <<StoredHashPublicValues, StoredChecksumPublicValues>>, {1, 2}),
     SubProofs(<<>>, <<>>, {}),
     SubProofs(<<OtherVk>>, <<<<>>>>, {1}),
     SubProofs(<<HashVk, ChecksumVk>>,
               <<hash_public_values, set.checksum_public_values>>, {1}),
     [vkeys |-> <<HashVk>>, public_values |-> <<>>, proofs |-> {}]}

\* The keyserver responses a prover can witness for a set: the answers of the
\* quorum in ascending order of id, the same without the last answer, with
\* the last answer one part short, with a first part that encodes no point,
\* and with the first answer given twice.
KeyserverResponseWitnesses(set) ==
    LET ids == SortedSeq(keys.quorum)
        whole == [j \in 1 .. Len(ids) |->
                     <<ids[j], KeyserverPartsFor(set.querystates, ids[j])>>]
        last == whole[Len(whole)]
    IN  {whole,
         SubSeq(whole, 1, Len(whole) - 1),
         [whole EXCEPT ![Len(whole)] = <<last[1], SubSeq(last[2], 1, Len(last[2]) - 1)>>],
         [whole EXCEPT ![1] = <<whole[1][1], [whole[1][2] EXCEPT ![1] = 1]>>],
         Append(whole, whole[1])}

\* another 32-byte string that holds the same scalar modulo the order: the
\* value of bytes plus the order
NonCanonicalBytes(bytes) ==
    <<(BytesValue(bytes) + L) % ByteBase, (BytesValue(bytes) + L) \div ByteBase>>

\* The serialized forms of a set a prover can witness: the one
\* to_serializable_set gives, and the same with the two factors of the
\* checksum state written as non-canonical bytes.
SerializedWitnesses(set) ==
    LET sqss == to_serializable_set(set.querystates, set.randomized_target)
        last == Len(sqss.querystates)
    IN  {sqss,
         [sqss EXCEPT
            !.querystates[last].qs.blinding_factor = NonCanonicalBytes(@),
            !.querystates[last].qs.verification_factor = NonCanonicalBytes(@)]}

\* client.execute(VERIFICATION_ELF, stdin)
ExecuteVerificationProof ==
    /\ pc = "built"
    /\ ~verification_run.executed
    /\ \E set \in QueryStateSetWitnesses :
         \E sub \in SubProofWitnesses(set),
            keyserver_responses \in KeyserverResponseWitnesses(set),
            querystate \in SerializedWitnesses(set) :
           \E stdin \in {[vkeys |-> sub.vkeys, public_values |-> sub.public_values,
                          proofs |-> sub.proofs,
                          querystate |-> querystate,
                          keyserver_responses |-> keyserver_responses]} :
             \E run \in {VerificationProofMain(stdin)} :
               /\ verification_stdin' = stdin
               /\ verification_run' = [executed |-> TRUE, halted |-> run.halted,
                                       public_values |-> run.public_values]
    /\ UNCHANGED <<clientVars, hdbVars, processVars>>

\* incorporate_responses_and_hash on the set that was witnessed to the guest
\* in serialized form, and on the same keyserver responses
IncorporateResponsesAndHash ==
    /\ pc = "built"
    /\ verification_run.executed
    /\ \E set \in QueryStateSetWitnesses :
         /\ verification_stdin.querystate \in SerializedWitnesses(set)
         /\ \E out \in {incorporate_responses_and_hash(
                            set.querystates, set.randomized_target,
                            verification_stdin.keyserver_responses)} :
              /\ querystates' = out.querystates
              /\ randomized_target' = set.randomized_target
              /\ result' = [kind |-> out.kind, hashes |-> out.hashes, guilty |-> <<>>]
    /\ pc' = "hashed"
    /\ UNCHANGED <<keys, active_security_key, messages, hash_stdin, checksum_stdin,
                   hash_public_values, checksum_public_values, sum, calls,
                   guestVars, hdbVars, processVars>>

\* the blinding factors drawn in the runs of the verification-proof guest
GuestRandomScalars == {2}

NextGuest ==
    \/ FromIter(GuestRandomScalars, VerificationFactors)
    \/ ExecuteVerificationProof
    \/ IncorporateResponsesAndHash

\* Batch construction followed by a run of the verification-proof guest.
SpecGuest == Init /\ [][NextGuest]_vars

NextHdb ==
    \/ ScepEndpointScreenAndVerify
    \/ ScepEndpointScreen

\* The HDB handling screening requests.
SpecHdb == InitWith({Committee(2, 2, MaxKeyholders, <<4>>, {1, MaxKeyholders}, {})}, {<<>>})
           /\ [][NextHdb]_vars

---------------------------------------------------------------------------
(* The HDB serving requests at the same time (screening.rs): each handler  *)
(* is a task, and the tasks interleave at their await points.              *)

\* the endpoints of the requests served at the same time: one that takes the
\* session and looks the hashes up, one that takes the session and stores it
\* back.  scep_endpoint_screen takes the steps of
\* scep_endpoint_screen_and_verify whose proof verified.
Endpoints == {"screen_and_verify", "screen_with_exemption"}

\* the ristretto_data of the requests served at the same time: one hash, and
\* one hash more than parallelism_per_request, the third of which is not in
\* the database
TaskPayloads ==
    {[i \in 1 .. n |-> [tag |-> i, hash |-> IF i % 3 = 0 THEN 2 ELSE 4]] :
        n \in {1, parallelism_per_request + 1}}

\* the hashes of the hazards in the database
HazardDatabase == {4}

\* hdb::query_hdb(hash_bytes, params, config): the entry of the hash, if any
query_hdb(hash) == IF hash \in HazardDatabase THEN Some(hash) ELSE None

\* the flag of a HashTag that marks the first window of a record
is_start_of_record(tag) == tag % 2 = 1

\* HashId::new(tag, last_record): the record is counted up from the record
\* of the hash before at each first window of a record
HashIdNew(tag, last_record) ==
    [tag    |-> tag,
     record |-> IF last_record = None THEN 0
                ELSE IF is_start_of_record(tag) THEN Unwrap(last_record) + 1
                ELSE Unwrap(last_record)]

\* the handler reading the state of the session and leaving it in the table
PeekClientState(clients, cookie) ==
    IF cookie \in DOMAIN clients
    THEN [client_state |-> Some(clients[cookie]), clients |-> clients]
    ELSE [client_state |-> None, clients |-> clients]

\* clients.write().await.take_session(&cookie).ok_or_else(unknown cookie): the
\* state obtained, if any, and the table left
TakeClientState(clients, cookie) ==
    IF cookie \in DOMAIN clients
    THEN [client_state |-> Some(clients[cookie]), clients |-> take_session(clients, cookie)]
    ELSE [client_state |-> None, clients |-> clients]

\* scep::steps::server_screen_with_el_client(params, client_state): the new
\* state of a client that was promised an exemption, or an error
server_screen_with_el_client(accepted, client_state) ==
    IF accepted THEN Some("PromisedEt") ELSE None

\* acquire_owned that hands out a permit without taking one from the semaphore
acquire_owned_untaken(permits) == permits

\* hdb_queries.clone().acquire_owned(): the permits left in the semaphore
acquire_owned(permits) == permits - 1

\* dropping the permit at the end of the blocking closure
drop_permit(permits) == permits + 1

\* a handler that returned: its request and what it held are dropped
Returned(task, outcome) ==
    [task EXCEPT !.pc = "done", !.outcome = outcome, !.client_state = None,
                 !.endpoint = "", !.ristretto_data = <<>>, !.lookups = <<>>,
                 !.last_record = None, !.hash_ids = <<>>,
                 !.hdb_responses = IF outcome = "Ok" THEN @ ELSE <<>>]

\* the number of lookups of a task in one of the given states
CountLookups(task, states) ==
    Cardinality({i \in 1 .. Len(task.lookups) : task.lookups[i] \in states})

\* buffered(parallelism_per_request): the futures the stream holds, from the
\* moment it pulls one until it yields its result in order
Buffered(task) == CountLookups(task, {"acquiring", "running", "finished"})

\* A request arrives: the handler has read the session cookie.
Arrive(t) ==
    /\ hdb_tasks[t].pc = "idle"
    /\ \A u \in Requests : u < t => hdb_tasks[u].pc # "idle"
    /\ \E endpoint \in Endpoints, cookie \in Cookies, ristretto_data \in TaskPayloads :
          /\ endpoint = "screen_with_exemption" => Len(ristretto_data) = 1
          /\ hdb_tasks' = [hdb_tasks EXCEPT ![t] =
                 [pc |-> "take", endpoint |-> endpoint, cookie |-> cookie,
                  ristretto_data |-> ristretto_data, client_state |-> None,
                  obtained |-> FALSE, stored |-> FALSE, lookups |-> <<>>,
                  last_record |-> None, hash_ids |-> <<>>, hdb_responses |-> <<>>,
                  outcome |-> ""]]
    /\ UNCHANGED <<clientVars, guestVars, hdb_clients, hdb_log, hdb_clients_writer,
                   hdb_queries, processVars>>

\* clients.write().await: the task gets the write lock of the session table
LockClients(t) ==
    /\ hdb_tasks[t].pc \in {"take", "add"}
    /\ hdb_clients_writer = 0
    /\ hdb_clients_writer' = t
    /\ UNCHANGED <<clientVars, guestVars, hdb_clients, hdb_log, hdb_tasks, hdb_queries,
                   processVars>>

\* take_session under the write lock, which the end of the statement drops
TakeSession(t) ==
    /\ hdb_tasks[t].pc = "take"
    /\ hdb_clients_writer = t
    /\ \E taken \in {TakeClientState(hdb_clients, hdb_tasks[t].cookie)} :
          /\ hdb_clients' = taken.clients
          /\ hdb_tasks' = [hdb_tasks EXCEPT ![t] =
                 IF taken.client_state = None
                 THEN Returned(@, "InvalidMessage")
                 ELSE [@ EXCEPT !.pc = "holding", !.obtained = TRUE,
                                !.client_state = taken.client_state]]
    /\ hdb_clients_writer' = 0
    /\ UNCHANGED <<clientVars, guestVars, hdb_log, hdb_queries, processVars>>

\* A screening handler from the verification of the proof to the stream of
\* lookups: it ends there, or goes on to the lookups.
ScreenSteps(t) ==
    /\ hdb_tasks[t].pc = "holding"
    /\ hdb_tasks[t].endpoint = "screen_and_verify"
    /\ \E verified, throttled \in BOOLEAN :
          /\ ~verified => ~throttled
          /\ \E screened \in {Screen(Unwrap(hdb_tasks[t].client_state),
                                     hdb_tasks[t].ristretto_data, throttled)} :
                hdb_tasks' = [hdb_tasks EXCEPT ![t] =
                    IF ~verified
                    THEN Returned(@, "panic")
                    ELSE IF screened.outcome # "Ok"
                    THEN Returned(@, screened.outcome)
                    ELSE [@ EXCEPT !.pc = "lookups"]]
    /\ UNCHANGED <<clientVars, guestVars, hdb_clients, hdb_log, hdb_clients_writer,
                   hdb_queries, processVars>>

\* scep_endpoint_screen_with_exemption from the body to the new client state
ScreenWithExemptionSteps(t) ==
    /\ hdb_tasks[t].pc = "holding"
    /\ hdb_tasks[t].endpoint = "screen_with_exemption"
    /\ \E accepted \in BOOLEAN :
          \E new_client_state \in {server_screen_with_el_client(
                                       accepted, Unwrap(hdb_tasks[t].client_state))} :
              hdb_tasks' = [hdb_tasks EXCEPT ![t] =
                  IF new_client_state = None
                  THEN Returned(@, "ScreenWithEL")
                  ELSE [@ EXCEPT !.pc = "add", !.client_state = new_client_state]]
    /\ UNCHANGED <<clientVars, guestVars, hdb_clients, hdb_log, hdb_clients_writer,
                   hdb_queries, processVars>>

\* add_session under the write lock, which the end of the statement drops
AddSession(t) ==
    /\ hdb_tasks[t].pc = "add"
    /\ hdb_clients_writer = t
    /\ \E added \in {add_session(hdb_clients, hdb_tasks[t].cookie,
                                 Unwrap(hdb_tasks[t].client_state))} :
          /\ hdb_clients' = added.clients
          /\ hdb_tasks' = [hdb_tasks EXCEPT ![t] =
                 [@ EXCEPT !.pc = "respond", !.client_state = None,
                           !.stored = added.ok]]
    /\ hdb_clients_writer' = 0
    /\ UNCHANGED <<clientVars, guestVars, hdb_log, hdb_queries, processVars>>

\* scep_endpoint_screen_with_exemption returns its response, or the error of
\* add_session
Respond(t) ==
    /\ hdb_tasks[t].pc = "respond"
    /\ hdb_tasks' = [hdb_tasks EXCEPT ![t] =
           Returned(@, IF @.stored THEN "Ok" ELSE "InternalError")]
    /\ UNCHANGED <<clientVars, guestVars, hdb_clients, hdb_log, hdb_clients_writer,
                   hdb_queries, processVars>>

\* buffered(parallelism_per_request) pulls the future of the next query: the
\* closure of map gives the query its HashId and keeps its record
StartLookup(t) ==
    /\ hdb_tasks[t].pc = "lookups"
    /\ Len(hdb_tasks[t].lookups) < Len(hdb_tasks[t].ristretto_data)
    /\ Buffered(hdb_tasks[t]) < parallelism_per_request
    /\ \E hash_id \in {HashIdNew(
                           hdb_tasks[t].ristretto_data[Len(hdb_tasks[t].lookups) + 1].tag,
                           hdb_tasks[t].last_record)} :
          hdb_tasks' = [hdb_tasks EXCEPT ![t] =
              [@ EXCEPT !.lookups = Append(@, "acquiring"),
                        !.hash_ids = Append(@, hash_id),
                        !.last_record = Some(hash_id.record)]]
    /\ UNCHANGED <<clientVars, guestVars, hdb_clients, hdb_log, hdb_clients_writer,
                   hdb_queries, processVars>>

\* acquire_owned().await returns a permit and the lookup is handed to
\* spawn_blocking with it
AcquirePermit(t) ==
    /\ hdb_tasks[t].pc = "lookups"
    /\ hdb_queries > 0
    /\ \E i \in 1 .. Len(hdb_tasks[t].lookups) :
          /\ hdb_tasks[t].lookups[i] = "acquiring"
          /\ hdb_tasks' = [hdb_tasks EXCEPT ![t].lookups[i] = "running"]
    /\ hdb_queries' = acquire_owned(hdb_queries)
    /\ UNCHANGED <<clientVars, guestVars, hdb_clients, hdb_log, hdb_clients_writer,
                   processVars>>

\* hdb::query_hdb returns in the blocking closure, which drops the permit it
\* was given; the closure runs to its end whether or not its request is
\* still served, and nothing waits for the result of a request that is not
\* served any more
FinishLookup(t) ==
    /\ \E i \in 1 .. Len(hdb_tasks[t].lookups) :
          /\ hdb_tasks[t].lookups[i] = "running"
          /\ hdb_tasks' = [hdb_tasks EXCEPT ![t].lookups =
                 IF hdb_tasks[t].pc = "cancelled"
                 THEN Tail(@)
                 ELSE [@ EXCEPT ![i] = "finished"]]
    /\ hdb_queries' = drop_permit(hdb_queries)
    /\ UNCHANGED <<clientVars, guestVars, hdb_clients, hdb_log, hdb_clients_writer,
                   processVars>>

\* filter_map and try_collect take the result the stream yields: a result
\* without an entry is dropped, another is collected with its HashId
Collect(task, i) ==
    LET resp == query_hdb(task.ristretto_data[i].hash)
    IN  IF resp = None THEN task.hdb_responses
        ELSE Append(task.hdb_responses, <<task.hash_ids[i], Unwrap(resp)>>)

\* a stream that yields the result of any lookup that has finished, as
\* buffer_unordered does
YieldLookupUnordered(t) ==
    /\ hdb_tasks[t].pc = "lookups"
    /\ \E i \in 1 .. Len(hdb_tasks[t].lookups) :
          /\ hdb_tasks[t].lookups[i] = "finished"
          /\ hdb_tasks' = [hdb_tasks EXCEPT ![t] =
                 IF /\ Len(@.lookups) = Len(@.ristretto_data)
                    /\ \A j \in 1 .. Len(@.lookups) : j # i => @.lookups[j] = "yielded"
                 THEN Returned([@ EXCEPT !.hdb_responses = Collect(hdb_tasks[t], i)], "Ok")
                 ELSE [@ EXCEPT !.lookups[i] = "yielded",
                                !.hdb_responses = Collect(hdb_tasks[t], i)]]
    /\ UNCHANGED <<clientVars, guestVars, hdb_clients, hdb_log, hdb_clients_writer,
                   hdb_queries, processVars>>

\* the stream yields the result of the oldest lookup it holds, which is
\* collected; the handler responds after the last
YieldLookup(t) ==
    /\ hdb_tasks[t].pc = "lookups"
    /\ \E i \in 1 .. Len(hdb_tasks[t].lookups) :
          /\ hdb_tasks[t].lookups[i] = "finished"
          /\ \A j \in 1 .. (i - 1) : hdb_tasks[t].lookups[j] = "yielded"
          /\ hdb_tasks' = [hdb_tasks EXCEPT ![t] =
                 IF i = Len(@.ristretto_data)
                 THEN Returned([@ EXCEPT !.hdb_responses = Collect(hdb_tasks[t], i)], "Ok")
                 ELSE [@ EXCEPT !.lookups[i] = "yielded",
                                !.hdb_responses = Collect(hdb_tasks[t], i)]]
    /\ UNCHANGED <<clientVars, guestVars, hdb_clients, hdb_log, hdb_clients_writer,
                   hdb_queries, processVars>>

\* The connection of a request is closed and its handler is dropped at an
\* await point: what it holds is dropped, the acquisitions it waits for are
\* abandoned, and the blocking closures it spawned go on.
Cancel(t) ==
    /\ hdb_tasks[t].pc \in {"take", "holding", "add", "lookups"}
    /\ hdb_clients_writer # t
    /\ hdb_tasks' = [hdb_tasks EXCEPT ![t] =
           [@ EXCEPT !.pc = "cancelled", !.client_state = None,
                     !.endpoint = "", !.ristretto_data = <<>>,
                     !.last_record = None, !.hash_ids = <<>>, !.hdb_responses = <<>>,
                     !.lookups = SelectSeq(@, LAMBDA status : status = "running")]]
    /\ UNCHANGED <<clientVars, guestVars, hdb_clients, hdb_log, hdb_clients_writer,
                   hdb_queries, processVars>>

NextHdbTasks ==
    \E t \in Requests :
        \/ Arrive(t)
        \/ LockClients(t)
        \/ TakeSession(t)
        \/ ScreenSteps(t)
        \/ ScreenWithExemptionSteps(t)
        \/ AddSession(t)
        \/ Respond(t)
        \/ StartLookup(t)
        \/ AcquirePermit(t)
        \/ FinishLookup(t)
        \/ YieldLookup(t)
        \/ Cancel(t)

\* the session table of the HDB when the requests arrive: two clients that
\* have authenticated
SessionTables == {[c \in Cookies |-> "NoEt"]}

\* The HDB serving requests at the same time.
SpecHdbTasks ==
    InitWithSessions({Committee(2, 2, MaxKeyholders, <<4>>, {1, MaxKeyholders}, {})},
                     {<<>>}, SessionTables)
    /\ [][NextHdbTasks]_vars

---------------------------------------------------------------------------
(* Properties of the batch protocol.                                       *)

\* The result held is the value returned by get_hash_values on the set as it
\* stands: every other call overwrites result.
Finalized == result.kind \in {"Ok", "ValidationFailed", "MissingKeyserverResponse"}

\* Every member of the quorum has answered every query of the set, once.
QuorumAnswered ==
    /\ pc = "built"
    /\ \A i \in 1 .. Len(querystates) :
          LET responses == querystates[i].qs.responses
          IN  /\ Len(responses) = Cardinality(keys.quorum)
              /\ {responses[j][1] : j \in 1 .. Len(responses)} = keys.quorum

\* The single-key hash KeyShare(s).apply(H(m)) of the i-th message
SingleKeyHash(i) == Compress(PointMul(keys.secret, PointHashFromBytes(messages[i].bytes)))

\* C1 (P1, correctness): when every member of an honest quorum has answered
\* every query with its share and Lagrange coefficient, get_hash_values
\* returns Ok and the hash of each message is the single-key hash.
C1_Correctness ==
    (QuorumAnswered /\ keys.corrupted = {} /\ Finalized)
        => /\ result.kind = "Ok"
           /\ Len(result.hashes) = Len(messages)
           /\ \A i \in 1 .. Len(messages) : result.hashes[i].hash = SingleKeyHash(i)

\* C2 (P3, blame completeness): for every blinding and verification factor
\* from_iter can draw, when every member of the quorum has answered honestly,
\* get_hash_values does not return ValidationFailed.
C2_BlameCompleteness ==
    (QuorumAnswered /\ keys.corrupted = {} /\ Finalized)
        => result.kind # "ValidationFailed"

\* Some window got, from a corrupted member of the quorum, a HashPart that
\* differs from the one the honest share gives.
MalformedWindowPart ==
    \E i \in 1 .. Len(querystates) - 1 :
        \E j \in 1 .. Len(querystates[i].qs.responses) :
            LET id == querystates[i].qs.responses[j][1]
            IN  /\ id \in keys.corrupted
                /\ querystates[i].qs.responses[j][2]
                     # apply_query_and_lagrange_coefficient(
                           keys.keyshares[id], querystates[i].qs.query,
                           langrange_coefficient_for_id(keys.quorum, id))

\* C3 (P2, blame soundness): when a nonempty subset B of the quorum answers
\* under corrupted shares, with a malformed HashPart for some window, and the
\* others answer honestly, get_hash_values returns ValidationFailed(B).
C3_BlameSoundness ==
    (QuorumAnswered /\ keys.corrupted # {} /\ MalformedWindowPart /\ Finalized)
        => /\ result.kind = "ValidationFailed"
           /\ result.guilty = SortedSeq(keys.corrupted)

\* C9: the hash-proof guest commits, for the stream from_iter writes for a
\* batch of n messages, the n window queries of the set in order, followed
\* by one sentinel.
C9_HashProofCommitsWindowQueries ==
    pc = "built" => hash_public_values = Append(queries(WindowStates), QuerySentinel)

\* C10: the query committed by the checksum-proof guest from the stream
\* from_iter writes is the query of the checksum state appended to the set.
C10_ChecksumProofQuery ==
    pc = "built" => checksum_public_values = <<ChecksumState.query>>

\* A batch of two messages is built with a checksum factor whose inverse is
\* not itself and a checksum query that is not the identity.
C10_Witness ==
    /\ pc = "built"
    /\ Len(messages) = 2
    /\ ChecksumState.verification_factor = 2
    /\ ChecksumState.query # QuerySentinel
    /\ checksum_public_values = <<ChecksumState.query>>

---------------------------------------------------------------------------
(* Properties of the HDB screening endpoints.                              *)

\* the requests handled by scep_endpoint_screen_and_verify that got as far as
\* the verification of the proof
ReachedVerification(e) ==
    e.endpoint = "screen_and_verify" /\ e.outcome # "InvalidMessage"

\* the tagged hashes committed in the public values of a proof
CommittedHashes(proof) ==
    IF Len(proof.public_values) >= 2 THEN proof.public_values[2] ELSE <<>>

\* C4 (P7, proof/HDB binding): scep_endpoint_screen_and_verify lets a request
\* past the proof exactly when the proof verifies against the
\* verification-proof key pinned on the HDB and the tagged hashes it commits
\* are the ristretto_data of the request.
C4_ProofBinding ==
    \A i \in 1 .. Len(hdb_log) :
        ReachedVerification(hdb_log[i])
            => (hdb_log[i].verified
                  <=> /\ client_verify(hdb_log[i].request.verification.proof, VerificationVk)
                      /\ CommittedHashes(hdb_log[i].request.verification.proof)
                           = hdb_log[i].request.ristretto_data)

\* C5: no request has hashes looked up with hdb::query_hdb unless a proof for
\* it was verified first, on every screening endpoint.
C5_NoLookupBeforeVerification ==
    \A i \in 1 .. Len(hdb_log) :
        hdb_log[i].lookups # <<>> => hdb_log[i].verified

\* C6: when the proof of a request does not verify,
\* scep_endpoint_screen_and_verify returns a ProofInvalid error, the handler
\* is not aborted, and no hash of the request is looked up.
C6_ProofInvalidReturned ==
    \A i \in 1 .. Len(hdb_log) :
        (/\ ReachedVerification(hdb_log[i])
         /\ ~client_verify(hdb_log[i].request.verification.proof,
                           hdb_log[i].request.verification.vk))
            => /\ hdb_log[i].outcome = "ProofInvalid"
               /\ hdb_log[i].lookups = <<>>

---------------------------------------------------------------------------
(* Properties of the verification-proof guest.                             *)

\* the run ended normally with the tagged hashes committed
HashesCommitted ==
    /\ verification_run.executed
    /\ ~verification_run.halted
    /\ Len(verification_run.public_values) = 2

\* the queries of the set the guest replays
ReplayedQueries == queries(to_query_state_set(verification_stdin.querystate).querystates)

\* C7: the verification-proof guest commits tagged hashes only when the
\* sub-proofs it verified are one under the hash-proof key and one under the
\* checksum-proof key, whose public values are the window queries and the
\* checksum query of the set it replays.
C7_CommitsOnlyForProvenQueries ==
    HashesCommitted
        => /\ verification_stdin.vkeys = <<HashVk, ChecksumVk>>
           /\ verification_stdin.public_values =
                  <<Append(SubSeq(ReplayedQueries, 1, Len(ReplayedQueries) - 1),
                           QuerySentinel),
                    <<ReplayedQueries[Len(ReplayedQueries)]>>>>

\* C8: a run of the verification-proof guest that ends normally has committed
\* both the boolean true and the list of tagged hashes.
C8_NormalEndCommitsHashes ==
    (verification_run.executed /\ ~verification_run.halted)
        => Len(verification_run.public_values) = 2

---------------------------------------------------------------------------
(* Properties of the random modifier (P4).                                 *)

\* the bytes of the window queries of the set, laid out one after the other
\* in the order of the set: byte j belongs to query (j + 1) \div 2
WindowQueryBytes ==
    [j \in 1 .. 2 * Len(WindowStates) |->
        LET q == WindowStates[(j + 1) \div 2].qs.query
        IN  IF j % 2 = 1 THEN q % ByteBase ELSE q \div ByteBase]

\* the sequences of at most MaxBatch compressed points
CompressedSeqs ==
    UNION {[1 .. n -> {Compress(p) : p \in Points}] : n \in 0 .. MaxBatch}

\* C13: the random modifier of the randomized target of a built set is
\* Scalar::hash_from_bytes of the bytes of the window queries in emission
\* order, the first value of the checksum-proof stream is the bytes of that
\* same scalar, and every other sequence of queries is hashed from another
\* byte string.
C13_ModifierIsHashOfQueries ==
    pc = "built" =>
        \E bytes \in {WindowQueryBytes} : \E emitted \in {queries(WindowStates)} :
            /\ randomized_target.random_modifier = ScalarHashFromBytes(bytes)
            /\ randomized_target
                  = randomized_target_of(active_security_key, ScalarHashFromBytes(bytes))
            /\ checksum_stdin[1] = ScalarToBytes(ScalarHashFromBytes(bytes))
            /\ \A other \in CompressedSeqs :
                  other # emitted => ConcatQueries(other) # bytes

\* A set is built from two messages whose queries differ, so that the order
\* of the queries shows in the bytes.
C13_Witness ==
    /\ pc = "built"
    /\ Len(messages) = 2
    /\ WindowStates[1].qs.query # WindowStates[2].qs.query
    /\ randomized_target.random_modifier = ScalarHashFromBytes(WindowQueryBytes)
    /\ ConcatQueries(<<WindowStates[2].qs.query, WindowStates[1].qs.query>>)
          # WindowQueryBytes

---------------------------------------------------------------------------
(* Properties of the host's incorporation routine against the guest.       *)

\* the host's routine has run on the set and the responses that were
\* witnessed to a guest run whose sub-proofs verified, so that the guest
\* reached its own loop over the responses
HostAndGuestIncorporated ==
    /\ pc = "hashed"
    /\ verification_run.executed
    /\ ~verification_run.halted

\* C11: on the same set and the same keyserver responses, the guest (once
\* its sub-proofs verified) commits tagged hashes exactly when the host's
\* incorporate_responses_and_hash returns Ok, and the hashes committed are
\* the hashes returned.
C11_HostGuestAgreement ==
    HostAndGuestIncorporated
        => /\ HashesCommitted <=> result.kind = "Ok"
           /\ HashesCommitted => verification_run.public_values[2] = result.hashes

\* Host and guest both produced the two tagged hashes of a batch of two
\* messages whose factors are neither equal nor their own inverses' images.
C11_Witness ==
    /\ HostAndGuestIncorporated
    /\ HashesCommitted
    /\ result.kind = "Ok"
    /\ Len(result.hashes) = 2
    /\ verification_run.public_values[2] = result.hashes
    /\ \E i \in 1 .. 2 :
          WindowStates[i].qs.blinding_factor # WindowStates[i].qs.verification_factor

\* C12: a batch that finalizes successfully does so under the modifier that
\* is Scalar::hash_from_bytes of its own queries: whenever the incorporation
\* of the answers of the quorum returns Ok, the random modifier of the
\* randomized target the set was validated against is the hash of the
\* concatenated window queries of the set.
C12_ChecksumBinding ==
    (pc = "hashed" /\ result.kind = "Ok")
        => randomized_target.random_modifier
              = ScalarHashFromBytes(ConcatQueries(queries(WindowStates)))

---------------------------------------------------------------------------
(* Properties of incorporate_response and get_hash_values on a built set.  *)

\* the answers of keyserver id to the set, cut or padded to every length
\* from no part to one part too many
PartsOfEveryLength(id) ==
    LET padded == Append(KeyserverParts(id), CompressedDefault)
    IN  {SubSeq(padded, 1, m) : m \in 0 .. Len(padded)}

\* C14: on every set built and at every stage of its incorporation, a call
\* of incorporate_response with a number of parts other than the number of
\* elements of the set returns WrongSizeResponse and leaves the set, hence
\* the responses of each of its states, as it was.
C14_WrongSizeLeavesResponses ==
    pc = "built" =>
        \A id \in keys.quorum : \A parts \in PartsOfEveryLength(id) :
            Len(parts) # Len(querystates) =>
                /\ incorporate_response_result(querystates, id, parts).kind
                      = "WrongSizeResponse"
                /\ incorporate_response(querystates, id, parts) = querystates

\* After one keyserver's answer was incorporated into a set of three
\* elements, an answer that is one part short was refused and the responses
\* held are still those of the first answer alone.
C14_Witness ==
    /\ pc = "built"
    /\ calls = 2
    /\ Len(querystates) = 3
    /\ result.kind = "WrongSizeResponse"
    /\ \A i \in 1 .. Len(querystates) : Len(querystates[i].qs.responses) = 1

\* C15: when the incorporation of a vector of responses fails with
\* WrongSizeResponse, no state of the set has had a response appended, not
\* even from the correctly sized responses earlier in the vector.
C15_BatchIncorporationAllOrNothing ==
    (pc = "hashed" /\ result.kind = "WrongSizeResponse")
        => \A i \in 1 .. Len(querystates) : querystates[i].qs.responses = <<>>

\* some state of the set, the checksum state included, holds fewer responses
\* than its threshold
SomeStateLacksResponses ==
    \E i \in 1 .. Len(querystates) :
        Len(querystates[i].qs.responses) < querystates[i].qs.required_keyholders

\* C16: get_hash_values on a set in which some state holds fewer than
\* required_keyholders responses returns MissingKeyserverResponse, with no
\* hash reconstructed and no keyserver blamed.
C16_MissingKeyserverResponse ==
    (pc = "built" /\ Finalized /\ SomeStateLacksResponses)
        => result = [kind |-> "MissingKeyserverResponse", hashes |-> <<>>,
                     guilty |-> <<>>]

\* get_hash_values returned MissingKeyserverResponse on a set of three
\* elements that each hold one response of the two required.
C16_Witness ==
    /\ pc = "built"
    /\ Len(querystates) = 3
    /\ result.kind = "MissingKeyserverResponse"
    /\ \A i \in 1 .. Len(querystates) :
          /\ Len(querystates[i].qs.responses) = 1
          /\ querystates[i].qs.required_keyholders = 2

\* C17: when get_hash_values returns Ok on a set built from n messages, it
\* returns n tagged hashes, the i-th with the tag given with the i-th message
\* and the hash reconstructed from the responses of the i-th state; the hash
\* of the checksum state is not among them.
C17_HashesInInputOrder ==
    (pc = "built" /\ result.kind = "Ok")
        => /\ Len(result.hashes) = Len(messages)
           /\ \A i \in 1 .. Len(messages) :
                 /\ result.hashes[i].tag = messages[i].tag
                 /\ result.hashes[i].hash = Unwrap(get_hash_value(querystates[i].qs))

\* get_hash_values returned Ok with two different hashes for two different
\* messages, and the checksum state had a hash of its own.
C17_Witness ==
    /\ pc = "built"
    /\ result.kind = "Ok"
    /\ Len(messages) = 2
    /\ messages[1].bytes # messages[2].bytes
    /\ Len(result.hashes) = 2
    /\ result.hashes[1].hash # result.hashes[2].hash
    /\ get_hash_value(ChecksumState) # None

\* C18: a set built by from_iter over n messages, n = 0 included, has n + 1
\* elements; the i-th of the first n carries Some of the tag of the i-th
\* message and the query blinded from the i-th message, the last carries no
\* tag; and this stays so through every later incorporate_response and
\* get_hash_values.
C18_SetShape ==
    pc = "built" =>
        /\ Len(querystates) = Len(messages) + 1
        /\ \A i \in 1 .. Len(messages) :
              /\ querystates[i].tag = Some(messages[i].tag)
              /\ querystates[i].qs.query
                    = Compress(PointMul(querystates[i].qs.blinding_factor,
                                        PointHashFromBytes(messages[i].bytes)))
        /\ querystates[Len(querystates)].tag = None

\* A set built from two different messages keeps its three elements, its
\* tags and its order after two answers were incorporated and
\* get_hash_values has returned.
C18_Witness ==
    /\ pc = "built"
    /\ Len(messages) = 2
    /\ messages[1].bytes # messages[2].bytes
    /\ calls = 2
    /\ Finalized
    /\ Len(querystates) = 3
    /\ querystates[1].tag = Some(messages[1].tag)
    /\ querystates[2].tag = Some(messages[2].tag)
    /\ querystates[3].tag = None

\* C19: a set is one-shot: once get_hash_values has returned on it, with Ok
\* or with an error, no step adds a response to it or replaces the value
\* get_hash_values returned.
C19_OneShot ==
    [][(pc = "built" /\ Finalized) => (querystates' = querystates /\ result' = result)]_vars

\* C20: in every reachable state no QueryState holds more responses than its
\* required_keyholders threshold.
C20_ResponsesWithinThreshold ==
    \A i \in 1 .. Len(querystates) :
        Len(querystates[i].qs.responses) <= querystates[i].qs.required_keyholders

---------------------------------------------------------------------------
(* Properties of repeated and reordered keyserver answers.                 *)

\* every state of the set holds exactly two responses, both of keyserver id
IncorporatedTwice(id) ==
    \A i \in 1 .. Len(querystates) :
        LET responses == querystates[i].qs.responses
        IN  /\ Len(responses) = 2
            /\ responses[1][1] = id
            /\ responses[2] = responses[1]

C22_DuplicateRejected ==
    \A i \in 1 .. Len(querystates) :
        \A j1, j2 \in 1 .. Len(querystates[i].qs.responses) :
            querystates[i].qs.responses[j1][1] = querystates[i].qs.responses[j2][1]
                => j1 = j2

\* C23: when the responses incorporated by incorporate_responses_and_hash are
\* too few or fail the validation, the routine returns an error value that
\* carries MissingKeyserverResponse or ValidationFailed; it does not panic.
C23_ErrorsReturnedNotPanicked ==
    (pc = "hashed" /\ result.kind \notin {"Ok", "WrongSizeResponse", "DecodeError"})
        => result.kind \in {"MissingKeyserverResponse", "ValidationFailed"}

---------------------------------------------------------------------------
(* Properties of key generation.                                           *)

\* C24: generate_keyshares returns UnreachableQuorumError and no share when
\* num_keyholders < required_keyholders, and otherwise returns exactly
\* num_keyholders shares.
C24_KeysharesOrUnreachableQuorum ==
    pc \in {"keyed", "chosen"} =>
        IF keys.num_keyholders < keys.required_keyholders
        THEN result.kind = "UnreachableQuorumError" /\ keys.keyshares = <<>>
        ELSE result.kind = "Keyshares" /\ Len(keys.keyshares) = keys.num_keyholders

\* Shares were generated for a committee of exactly the quorum, three of
\* three.
C24_Witness ==
    /\ pc = "keyed"
    /\ keys.required_keyholders = 3
    /\ keys.num_keyholders = 3
    /\ result.kind = "Keyshares"
    /\ Len(keys.keyshares) = 3

\* the value at 0 of the polynomial through the shares of the keyservers Q
InterpolateAtZero(Q) ==
    SumOver(Q, [i \in Q |-> ScalarMul(langrange_coefficient_for_id(Q, i),
                                      keys.keyshares[i])])

\* C25: the shares generated for n >= k are such that the first k - 1 are
\* the control points drawn, and the interpolation at 0 over the shares of
\* any k distinct keyservers, the chosen ones included, is the secret.
C25_AnyQuorumReconstructsSecret ==
    (pc \in {"keyed", "chosen"} /\ result.kind = "Keyshares") =>
        /\ \A x \in 1 .. keys.required_keyholders - 1 :
              keys.keyshares[x] = keys.control_points[x + 1]
        /\ \A Q \in SUBSET (1 .. keys.num_keyholders) :
              Cardinality(Q) = keys.required_keyholders
                  => InterpolateAtZero(Q) = keys.secret
        /\ pc = "chosen" => InterpolateAtZero(keys.quorum) = keys.secret

\* Two of three keyservers were chosen, not the first two, for shares that
\* are all different from the secret, and their shares give the secret.
C25_Witness ==
    /\ pc = "chosen"
    /\ keys.required_keyholders = 2
    /\ keys.num_keyholders = 3
    /\ keys.quorum = {2, 3}
    /\ \A x \in 1 .. 3 : keys.keyshares[x] # keys.secret
    /\ InterpolateAtZero(keys.quorum) = keys.secret

---------------------------------------------------------------------------
(* Properties of decoding.                                                 *)

\* the 32-byte strings the guest decodes to scalars
DecodedScalarBytes ==
    UNION {{verification_stdin.querystate.querystates[i].qs.blinding_factor,
            verification_stdin.querystate.querystates[i].qs.verification_factor} :
              i \in 1 .. Len(verification_stdin.querystate.querystates)}

\* C26: every decode of a scalar fails on bytes that are not a canonical
\* encoding, so the verification-proof guest, which decodes the factors of
\* the set with to_query_state_set, gets as far as committing hashes only
\* when every factor it was handed is canonically encoded.
C26_NonCanonicalDecodeFails ==
    HashesCommitted
        => \A bytes \in DecodedScalarBytes : ScalarFromCanonicalBytes(bytes) # None

---------------------------------------------------------------------------
(* Properties of the queries shown to the keyservers.                      *)

\* the queries QueryState::from_rp exposes for a hashed point, over all the
\* blinding factors
QueriesOver(point) ==
    {from_rp(point, keys.required_keyholders, 0, r).query : r \in RandomScalars}

\* C29 (query obliviousness): the query a window state exposes is one of the
\* queries of its message, and the set of queries reachable over all blinding
\* factors is the same for every hashed point that is not the identity, so
\* the query of a window is a query of every other message too.
C29_QueryOblivious ==
    pc = "built" =>
        \A i \in 1 .. Len(WindowStates) :
            \E own \in {QueriesOver(PointHashFromBytes(messages[i].bytes))} :
                /\ WindowStates[i].qs.query \in own
                /\ \A point \in Points \ {Identity} : QueriesOver(point) = own

\* A batch was built whose first message is the empty one, under a blinding
\* factor that gives the query the message <<1>> has under another factor.
C29_Witness ==
    /\ pc = "built"
    /\ Len(messages) = 2
    /\ messages[1].bytes = <<>>
    /\ PointHashFromBytes(<<1>>) # PointHashFromBytes(<<>>)
    /\ WindowStates[1].qs.blinding_factor = 1
    /\ WindowStates[1].qs.query
          = from_rp(PointHashFromBytes(<<1>>), keys.required_keyholders, 0, 4).query

---------------------------------------------------------------------------
(* Properties of the order of the responses.                               *)

\* the orders in which n responses can have been incorporated
ResponseOrders(n) ==
    {order \in [1 .. n -> 1 .. n] : \A a, b \in 1 .. n : order[a] = order[b] => a = b}

\* the set with the responses of every state incorporated in another order
Reordered(qss, order) ==
    [i \in 1 .. Len(qss) |->
        [qss[i] EXCEPT !.qs.responses = [j \in 1 .. Len(@) |-> @[order[j]]]]]

\* C30: when get_hash_values has returned its result for a set, the result
\* (the hashes, the error and the blamed ids) is the one get_hash_values
\* returns for every order in which the responses held by the set could have
\* been incorporated, and so is the hash value of every state.
C30_OrderIndependent ==
    (pc = "built" /\ Finalized /\ querystates # <<>>) =>
        \A order \in ResponseOrders(Len(querystates[1].qs.responses)) :
            \E reordered \in {Reordered(querystates, order)} :
                /\ \A i \in 1 .. Len(querystates) :
                      get_hash_value(reordered[i].qs) = get_hash_value(querystates[i].qs)
                /\ get_hash_values(reordered, randomized_target) = result

\* The corrupted keyserver answered before the honest one, and
\* get_hash_values blamed it.
C30_Witness ==
    /\ pc = "built"
    /\ Len(messages) = 2
    /\ keys.corrupted = {MaxKeyholders}
    /\ \A i \in 1 .. Len(querystates) :
          /\ Len(querystates[i].qs.responses) = 2
          /\ querystates[i].qs.responses[1][1] = MaxKeyholders
          /\ querystates[i].qs.responses[2][1] = 1
    /\ result.kind = "ValidationFailed"
    /\ result.guilty = <<MaxKeyholders>>

---------------------------------------------------------------------------
(* Properties of the HDB serving requests at the same time.                *)

\* the lookups that are executing hdb::query_hdb, by request and position
RunningLookups ==
    {slot \in Requests \X (1 .. parallelism_per_request + 1) :
        /\ slot[2] <= Len(hdb_tasks[slot[1]].lookups)
        /\ hdb_tasks[slot[1]].lookups[slot[2]] = "running"}

\* the lookups of a request that were started and have not finished
InFlight(task) == CountLookups(task, {"acquiring", "running"})

\* C27: the lookups executing across all requests are at most the permits of
\* the hdb_queries semaphore, the lookups in flight for one request are at
\* most parallelism_per_request, and every executing lookup holds a permit
\* until it has finished: the permits left are those no executing lookup
\* holds.
C27_LookupsBounded ==
    /\ Cardinality(RunningLookups) <= HdbQueriesPermits
    /\ \A t \in Requests : InFlight(hdb_tasks[t]) <= parallelism_per_request
    /\ hdb_queries = HdbQueriesPermits - Cardinality(RunningLookups)

\* Every permit is held by an executing lookup, a request waits for a permit
\* with a lookup, and a request with as many lookups in flight as it may have
\* has a query it has not started.
C27_Witness ==
    /\ Cardinality(RunningLookups) = HdbQueriesPermits
    /\ hdb_queries = 0
    /\ \E t \in Requests : 
          /\ hdb_tasks[t].pc = "lookups"
          /\ CountLookups(hdb_tasks[t], {"acquiring"}) = 1
    /\ \E t \in Requests :
          /\ hdb_tasks[t].pc = "lookups"
          /\ InFlight(hdb_tasks[t]) = parallelism_per_request
          /\ Len(hdb_tasks[t].lookups) < Len(hdb_tasks[t].ristretto_data)

\* a request that is being served
InService(task) == task.pc \notin {"idle", "done", "cancelled"}

\* the requests whose handler holds the state of the session of a cookie
Holders(cookie) ==
    {t \in Requests : hdb_tasks[t].cookie = cookie /\ hdb_tasks[t].client_state # None}

\* the requests that obtained the state of the session from take_session
Obtainers(cookie) ==
    {t \in Requests : hdb_tasks[t].cookie = cookie /\ hdb_tasks[t].obtained}

\* the requests that stored a state of the session with add_session
Storers(cookie) ==
    {t \in Requests : hdb_tasks[t].cookie = cookie /\ hdb_tasks[t].stored}

\* C28 as stated: of the requests served at the same time that present the
\* same session cookie, at most one obtains the client state from
\* take_session.
C28_AtMostOneObtains ==
    \A t1, t2 \in Requests :
        (/\ t1 # t2
         /\ InService(hdb_tasks[t1])
         /\ InService(hdb_tasks[t2])
         /\ hdb_tasks[t1].cookie = hdb_tasks[t2].cookie)
            => ~(hdb_tasks[t1].obtained /\ hdb_tasks[t2].obtained)

\* what holds of the session states after every step
SessionHeldOnce ==
    /\ hdb_clients_writer # 0 => hdb_tasks[hdb_clients_writer].pc \in {"take", "add"}
    /\ \A cookie \in Cookies :
          /\ Cardinality(Holders(cookie))
                + (IF cookie \in DOMAIN hdb_clients THEN 1 ELSE 0) <= 1
          /\ Cardinality(Obtainers(cookie)) <= 1 + Cardinality(Storers(cookie))
    /\ \A t \in Requests :
          (hdb_tasks[t].pc = "done" /\ ~hdb_tasks[t].obtained)
              => hdb_tasks[t].outcome = "InvalidMessage"

\* C28, amended: the session table changes only in a step of the task that
\* holds its write lock, which is then released; a session state is in the
\* table or held by one handler, never by two; a request whose take_session
\* did not find the state is rejected with InvalidMessage; and the requests
\* that obtained the state of a cookie are at most one more than the
\* add_session calls that stored it back.
C28_SessionStateHeldOnce ==
    [][/\ hdb_clients' # hdb_clients
            => (hdb_clients_writer \in Requests /\ hdb_clients_writer' = 0)
       /\ SessionHeldOnce']_vars

\* Two requests presented the same cookie at the same time: one holds the
\* state of the session and goes on to its lookups, the other was rejected.
C28_Witness ==
    \E t1, t2 \in Requests :
        /\ hdb_tasks[t1].cookie = hdb_tasks[t2].cookie
        /\ hdb_tasks[t1].pc = "lookups"
        /\ hdb_tasks[t1].client_state # None
        /\ hdb_tasks[t2].pc = "done"
        /\ ~hdb_tasks[t2].obtained
        /\ hdb_tasks[t2].outcome = "InvalidMessage"

---------------------------------------------------------------------------
(* Properties of the number of responses held.                             *)

\* every state of the set holds n responses
AllHold(qss, n) == \A i \in 1 .. Len(qss) : Len(qss[i].qs.responses) = n

\* C31: from_iter builds the states without responses; a successful
\* incorporate_response(id, parts) appends the entry (id, parts[i]) to the
\* i-th state for every i and a failed one appends nothing, so the states of
\* a set all hold the same number of responses, one for each successful
\* call; and all_have_hash is true exactly when that number is at least
\* required_keyholders.
C31_UniformResponseCounts ==
    [][/\ (pc = "init" /\ pc' = "built") => AllHold(querystates', 0)
       /\ (pc = "built" /\ calls' = calls + 1) =>
             /\ result'.kind \in {"Incorporated", "WrongSizeResponse"}
             /\ result'.kind = "Incorporated" =>
                   \E id \in keys.quorum :
                       \A i \in 1 .. Len(querystates) :
                           querystates'[i].qs.responses
                               = Append(querystates[i].qs.responses,
                                        <<id, KeyserverParts(id)[i]>>)
             /\ result'.kind = "WrongSizeResponse" => querystates' = querystates
       /\ pc' = "built" =>
             /\ querystates' # <<>>
             /\ \E n \in {Len(querystates'[1].qs.responses)} :
                   /\ AllHold(querystates', n)
                   /\ all_have_hash(querystates') <=> n >= keys.required_keyholders]_vars

\* Of two calls on a set of three states the first failed and the second
\* succeeded: every state holds one response, fewer than the threshold.
C31_Witness ==
    /\ pc = "built"
    /\ Len(querystates) = 3
    /\ calls = 2
    /\ result.kind = "Incorporated"
    /\ AllHold(querystates, 1)
    /\ ~all_have_hash(querystates)

---------------------------------------------------------------------------
(* Properties of the reconstruction of a hash.                             *)

\* the sum of the points of all the HashParts a state holds
HeldPartsTotal(qs) ==
    SumSeq([j \in 1 .. Len(qs.responses) |-> to_rp(qs.responses[j][2])]) % L

\* C32: get_hash_value and get_hash_value_and_verification_value of a state
\* are None exactly when the state holds fewer than required_keyholders
\* responses; otherwise the hash is the encoding of the point h with
\* r * h = the sum of all the held parts, for the blinding factor r, and the
\* verification point is v * h for the verification factor v of the state.
C32_ThresholdGatedHash ==
    pc = "built" =>
        \A i \in 1 .. Len(querystates) :
            \E qs \in {querystates[i].qs} :
                \E hv \in {get_hash_value(qs)},
                   hvv \in {get_hash_value_and_verification_value(qs)} :
                    IF Len(qs.responses) < qs.required_keyholders
                    THEN hv = None /\ hvv = None
                    ELSE /\ hv # None
                         /\ hvv # None
                         /\ Unwrap(hvv).hash = Unwrap(hv)
                         /\ \E h \in Points :
                               /\ Unwrap(hv) = Compress(h)
                               /\ PointMul(qs.blinding_factor, h) = HeldPartsTotal(qs)
                               /\ Unwrap(hvv).verifier
                                     = PointMul(qs.verification_factor, h)

\* A state with the verification factor 2 holds the answers of the quorum,
\* which do not sum to the identity, and its verification point is not the
\* identity.
C32_Witness ==
    /\ pc = "built"
    /\ Len(messages) = 2
    /\ AllHold(querystates, keys.required_keyholders)
    /\ WindowStates[1].qs.verification_factor = 2
    /\ HeldPartsTotal(WindowStates[1].qs) # Identity
    /\ get_hash_value_and_verification_value(WindowStates[1].qs) # None
    /\ Unwrap(get_hash_value_and_verification_value(WindowStates[1].qs)).verifier
          # Identity

---------------------------------------------------------------------------
(* Properties of the proofs handed on.                                     *)

\* SP1ProofWithPublicValues::load of the verification proof saved by an
\* earlier run, on an empty batch
StoredVerificationPublicValues == <<TRUE, <<>>>>

\* the VerificationInputs from_iter returns: the proofs it loads from
\* /client/output, each with the verifying key of its program
FromIterVerificationInputs ==
    <<[proof |-> [vk |-> HashVk, public_values |-> StoredHashPublicValues,
                  valid |-> TRUE],
       vk |-> HashVk],
      [proof |-> [vk |-> ChecksumVk, public_values |-> StoredChecksumPublicValues,
                  valid |-> TRUE],
       vk |-> ChecksumVk]>>

\* the VerificationInput DoprfClient::hash returns for the HDB
hdb_verification_input ==
    [proof |-> [vk |-> VerificationVk,
                public_values |-> StoredVerificationPublicValues, valid |-> TRUE],
     vk |-> VerificationVk]

\* C33: for a batch that is not empty, the proofs from_iter returns commit
\* the queries of the batch it was called on (the window queries and the
\* sentinel, and the checksum query), and the proof DoprfClient::hash
\* forwards to the HDB commits the tagged hashes of that batch.
C33_ProofsOfCurrentBatch ==
    /\ (pc \in {"built", "hashed"} /\ messages # <<>>) =>
          /\ FromIterVerificationInputs[1].proof.public_values
                = Append(queries(WindowStates), QuerySentinel)
          /\ FromIterVerificationInputs[2].proof.public_values = <<ChecksumState.query>>
    /\ (pc = "hashed" /\ messages # <<>> /\ result.kind = "Ok") =>
          hdb_verification_input.proof.public_values = <<TRUE, result.hashes>>

---------------------------------------------------------------------------
(* Properties of the checksum state.                                       *)

\* the point X0 behind a checksum query under the blinding factor of the
\* checksum state
UnblindedChecksumPoint(query) ==
    PointMul(ScalarInvert(ChecksumState.blinding_factor), to_rp(query))

\* C34: whatever checksum verification factor v0 from_iter drew, v0 * X0 is
\* the checksum point C of get_checksum_point_for_validation, for the X0 of
\* the query of the checksum state and for the X0 of the query the
\* checksum-proof guest committed.
C34_ChecksumStateConsistent ==
    pc = "built" =>
        \E checksum \in {get_checksum_point_for_validation(randomized_target, sum)} :
            /\ PointMul(ChecksumState.verification_factor,
                        UnblindedChecksumPoint(ChecksumState.query)) = checksum
            /\ PointMul(ChecksumState.verification_factor,
                        UnblindedChecksumPoint(checksum_public_values[1])) = checksum

---------------------------------------------------------------------------
(* Runs of the hash-proof guest on the witness a prover hands it.          *)

\* the messages of the witnessed pairs: byte strings that are not empty
WitnessedBytes == {<<1>>, <<2>>}

\* The witness streams of the hash-proof guest: the bytes and the canonical
\* bytes of the blinding factor of each pair, then the empty byte string.
HashProofWitnesses ==
    UNION {{[k \in 1 .. 2 * n + 1 |->
                IF k = 2 * n + 1 THEN <<>>
                ELSE IF k % 2 = 1 THEN pairs[(k + 1) \div 2][1]
                ELSE ScalarToBytes(pairs[k \div 2][2])] :
              pairs \in [1 .. n -> WitnessedBytes \X Scalars]} : n \in 0 .. MaxBatch}

RECURSIVE ReadProofQueries(_)
\* from_iter, the loop over hash_public_values: the queries read up to the
\* first one that equals Query::sentinel()
ReadProofQueries(public_values) ==
    IF public_values = <<>> \/ public_values[1] = QuerySentinel THEN <<>>
    ELSE <<public_values[1]>> \o ReadProofQueries(Tail(public_values))

\* client.execute(HASH_ELF, hash_stdin) on a witness stream
ExecuteHashProof ==
    /\ pc = "init"
    /\ \E stdin \in HashProofWitnesses :
          /\ hash_stdin' = stdin
          /\ hash_public_values' = HashProofMain(stdin).public_values
    /\ pc' = "proved"
    /\ UNCHANGED <<keys, active_security_key, messages, querystates, randomized_target,
                   checksum_stdin, checksum_public_values, sum, calls, result,
                   guestVars, hdbVars, processVars>>

NextHashProof == ExecuteHashProof

\* The hash-proof guest run on the witness of a prover.
SpecHashProof ==
    InitWith({Committee(2, 2, MaxKeyholders, <<4>>, {1, MaxKeyholders}, {})}, {<<>>})
    /\ [][NextHashProof]_vars

\* C35: the hash-proof guest commits one query for each witnessed pair, none
\* of them equal to Query::sentinel(), so the loop that reads its public
\* values up to the first sentinel reads all the queries committed before
\* the closing sentinel, one for each pair.
C35_NoCommittedSentinel ==
    pc = "proved" =>
        /\ Len(hash_public_values) = (Len(hash_stdin) - 1) \div 2 + 1
        /\ ReadProofQueries(hash_public_values)
              = SubSeq(hash_public_values, 1, Len(hash_public_values) - 1)

\* C36: the keyserver ids of ValidationFailed are in strictly ascending order,
\* without repetition, and each of them has a response incorporated in the
\* set, in whatever order and however many times the ids were incorporated.
C36_BlameSortedAndResponded ==
    (pc = "built" /\ result.kind = "ValidationFailed") =>
        /\ \A j \in 1 .. Len(result.guilty) - 1 : result.guilty[j] < result.guilty[j + 1]
        /\ \A j \in 1 .. Len(result.guilty) : result.guilty[j] \in RespondedIds(querystates)

\* a failed validation that blames two keyservers incorporated in descending
\* order of id
C36_Witness ==
    /\ pc = "built"
    /\ result.kind = "ValidationFailed"
    /\ Len(result.guilty) = 2
    /\ \E i \in 1 .. Len(querystates) :
          /\ Len(querystates[i].qs.responses) = 2
          /\ querystates[i].qs.responses[1][1] > querystates[i].qs.responses[2][1]

\* to_serializable_set(x).to_query_state_set() of the set held by the client
RoundTripped ==
    to_query_state_set(to_serializable_set(querystates, randomized_target))

GetHashValuesKinds == {"Ok", "ValidationFailed", "MissingKeyserverResponse"}

---------------------------------------------------------------------------
(* The client's process and DoprfClient::hash (doprf_client.rs).           *)

\* the most sequences of a request and the most nucleotides of a sequence
MaxSequences == 2
MaxNucleotides == 2

\* config.max_windows
max_windows == 2

\* config.sequences, by the length of each sequence
SequenceLists == UNION {[1 .. n -> 0 .. MaxNucleotides] : n \in 0 .. MaxSequences}

\* config.ets, by the length of the DNA of each token: none, a token with no
\* DNA, a token with DNA
ExemptionTokenLists == {<<>>, <<0>>, <<MaxNucleotides>>}

\* hash_spec.min_width_bp() of the hash spec the HDB announces
MinWidths == {None, Some(1), Some(MaxNucleotides)}

\* DoprfConfig::nucleotide_total_count
nucleotide_total_count(sequences) == SumSeq(sequences)

\* DoprfClient::sequences_too_short_for_hash_spec
sequences_too_short_for_hash_spec(sequences, min_width_bp) ==
    IF min_width_bp = None THEN FALSE
    ELSE \A i \in 1 .. Len(sequences) : sequences[i] < Unwrap(min_width_bp)

\* Windows::from_dna(seq, hash_spec): an iterator over the windows of one
\* sequence, at most one window per nucleotide, whose size_hint is exact or
\* gives zero and an upper bound one above the number of windows
WindowIterators(record, len) ==
    UNION {{[lower |-> n, upper |-> n, items |-> [k \in 1 .. n |-> record]],
            [lower |-> 0, upper |-> n + 1, items |-> [k \in 1 .. n |-> record]]} :
              n \in 0 .. len}

WindowIteratorLists(sequences) ==
    {its \in [1 .. Len(sequences) ->
                UNION {WindowIterators(i, sequences[i]) : i \in 1 .. Len(sequences)}] :
        \A i \in 1 .. Len(sequences) : its[i] \in WindowIterators(i, sequences[i])}

RECURSIVE Flatten(_)
Flatten(seqs) == IF seqs = <<>> THEN <<>> ELSE Head(seqs) \o Flatten(Tail(seqs))

\* DoprfWindows::create
DoprfWindowsCreate(window_iters, max) ==
    LET n_windows == SumSeq([i \in 1 .. Len(window_iters) |-> window_iters[i].upper])
    IN  IF n_windows > max
        THEN [ok |-> FALSE, error |-> "SequencesTooBig"]
        ELSE [ok                |-> TRUE,
              count             |-> n_windows,
              combined_windows  |-> Flatten([i \in 1 .. Len(window_iters) |->
                                                window_iters[i].items]),
              non_empty_records |-> SelectSeq([i \in 1 .. Len(window_iters) |-> i],
                                              LAMBDA i : window_iters[i].lower > 0)]

\* DoprfOutput::too_short()
too_short == [kind |-> "Ok", n_hashes |-> 0, too_short |-> TRUE]

DoprfErr(error) == [kind |-> "Err", error |-> error]

\* process returns
ProcessReturned(p, outcome) == [p EXCEPT !.pc = "done", !.outcome = Some(outcome)]

\* DoprfClient::hash(windows), up to the connection to the keyservers: the
\* list of windows is refused when empty, and a QueryStateSet of one state
\* per window and the checksum state is built otherwise
HashUntilConnect(p, stage, windows) ==
    LET called == [p EXCEPT !.stage = stage, !.hashed = Append(@, windows.combined_windows)]
    IN  IF windows.combined_windows = <<>>
        THEN ProcessReturned(called, DoprfErr("SequencesTooBig"))
        ELSE [called EXCEPT !.pc = "connect",
                            !.built = Append(@, Len(windows.combined_windows) + 1)]

\* process that hashes the windows without looking at their count
ProcessWindowsUncounted(p, created) ==
    IF ~created.ok THEN ProcessReturned(p, DoprfErr(created.error))
    ELSE HashUntilConnect([p EXCEPT !.windows = Some(created)], "main", created)

\* process, from the windowing of the sequences to the connection to the
\* keyservers
ProcessWindows(p, created) ==
    IF ~created.ok THEN ProcessReturned(p, DoprfErr(created.error))
    ELSE IF created.count = 0
    THEN ProcessReturned([p EXCEPT !.windows = Some(created)],
                         [kind |-> "Ok", n_hashes |-> 0, too_short |-> FALSE])
    ELSE HashUntilConnect([p EXCEPT !.windows = Some(created)], "main", created)

\* process(config) is called: it returns when the sequences hold no
\* nucleotide, and opens the client otherwise
ProcessCall ==
    /\ doprf_process.pc = "idle"
    /\ \E sequences \in SequenceLists, ets \in ExemptionTokenLists :
         LET p == [doprf_process EXCEPT !.sequences = sequences, !.ets = ets]
         IN  doprf_process' =
                 IF nucleotide_total_count(sequences) = 0
                 THEN ProcessReturned(p, too_short)
                 ELSE [p EXCEPT !.pc = "open"]
    /\ UNCHANGED <<clientVars, guestVars, hdbVars>>

\* DoprfClient::open has returned, with an error or with the hash spec of the
\* HDB: process windows the sequences and starts to hash them
ProcessOpened ==
    /\ doprf_process.pc = "open"
    /\ \/ doprf_process' = ProcessReturned(doprf_process, DoprfErr("Open"))
       \/ \E min_width_bp \in MinWidths :
            LET p == [doprf_process EXCEPT !.hash_spec = Some(min_width_bp)]
            IN  IF sequences_too_short_for_hash_spec(p.sequences, min_width_bp)
                THEN doprf_process' = ProcessReturned(p, too_short)
                ELSE \E window_iters \in WindowIteratorLists(p.sequences) :
                       doprf_process' =
                           ProcessWindows(p, DoprfWindowsCreate(window_iters, max_windows))
    /\ UNCHANGED <<clientVars, guestVars, hdbVars>>

\* connect_to_keyservers has returned: hash sends the queries of the set to
\* the keyservers
ProcessConnected ==
    /\ doprf_process.pc = "connect"
    /\ \/ doprf_process' = ProcessReturned(doprf_process, DoprfErr("Connect"))
       \/ doprf_process' =
              [doprf_process EXCEPT
                 !.pc = "query",
                 !.keyserver_queries = Append(@, doprf_process.built[Len(doprf_process.built)])]
    /\ UNCHANGED <<clientVars, guestVars, hdbVars>>

\* the keyservers have answered: hash incorporates the responses and returns
\* the hashes; process then hashes the windows of the exemption tokens, or
\* sends the screening request to the HDB
ProcessQueried ==
    /\ doprf_process.pc = "query"
    /\ \/ doprf_process' = ProcessReturned(doprf_process, DoprfErr("Query"))
       \/ /\ doprf_process.stage = "main"
          /\ doprf_process.ets # <<>>
          /\ \E window_iters \in WindowIteratorLists(doprf_process.ets) :
               \E created \in {DoprfWindowsCreate(window_iters, max_windows)} :
                 doprf_process' =
                     IF ~created.ok
                     THEN ProcessReturned(doprf_process, DoprfErr(created.error))
                     ELSE HashUntilConnect(doprf_process, "et", created)
       \/ /\ doprf_process.stage = "et" \/ doprf_process.ets = <<>>
          /\ doprf_process' =
                 [doprf_process EXCEPT
                    !.pc = "hdb",
                    !.hdb_requests = Append(@, Len(doprf_process.hashed[1]))]
    /\ UNCHANGED <<clientVars, guestVars, hdbVars>>

\* the HDB has answered the screening request: process returns the result
ProcessScreened ==
    /\ doprf_process.pc = "hdb"
    /\ \/ doprf_process' = ProcessReturned(doprf_process, DoprfErr("Hdb"))
       \/ doprf_process' =
              ProcessReturned(doprf_process,
                              [kind     |-> "Ok",
                               n_hashes |-> Unwrap(doprf_process.windows).count,
                               too_short |-> FALSE])
    /\ UNCHANGED <<clientVars, guestVars, hdbVars>>

NextProcess ==
    \/ ProcessCall
    \/ ProcessOpened
    \/ ProcessConnected
    \/ ProcessQueried
    \/ ProcessScreened

\* One call of process.
SpecProcess ==
    InitWith({Committee(2, 2, MaxKeyholders, <<4>>, {1, MaxKeyholders}, {})}, {<<>>})
    /\ [][NextProcess]_vars

\* the cases in which process has nothing to hash: no nucleotide, every
\* sequence shorter than the hash spec asks, or no window
NothingToHash(p) ==
    \/ nucleotide_total_count(p.sequences) = 0
    \/ /\ p.hash_spec # None
       /\ sequences_too_short_for_hash_spec(p.sequences, Unwrap(p.hash_spec))
    \/ /\ p.windows # None
       /\ Unwrap(p.windows).count = 0

\* C39: process returns a result with n_hashes = 0, having sent no query to
\* a keyserver and no screening request to the HDB, when the sequences hold
\* no nucleotide, when all of them are too short for the hash spec and when
\* windowing yields no window; hash returns an error without building a
\* QueryStateSet when its list of windows is empty, so that every set built
\* and every batch of queries sent holds a window besides the checksum.
C39_NoDoprfForEmptyBatch ==
    /\ (doprf_process.pc = "done" /\ NothingToHash(doprf_process)) =>
          /\ Unwrap(doprf_process.outcome).kind = "Ok"
          /\ Unwrap(doprf_process.outcome).n_hashes = 0
          /\ doprf_process.built = <<>>
          /\ doprf_process.keyserver_queries = <<>>
          /\ doprf_process.hdb_requests = <<>>
    /\ \A i \in 1 .. Len(doprf_process.hashed) :
          doprf_process.hashed[i] = <<>> =>
              /\ i = Len(doprf_process.hashed)
              /\ Len(doprf_process.built) = i - 1
              /\ doprf_process.pc = "done"
              /\ doprf_process.outcome = Some(DoprfErr("SequencesTooBig"))
    /\ \A i \in 1 .. Len(doprf_process.built) : doprf_process.built[i] >= 2
    /\ \A i \in 1 .. Len(doprf_process.keyserver_queries) :
          doprf_process.keyserver_queries[i] >= 2

\* process has returned n_hashes = 0 for sequences that are long enough for
\* the hash spec and yield no window
C39_Witness ==
    /\ doprf_process.pc = "done"
    /\ nucleotide_total_count(doprf_process.sequences) > 0
    /\ doprf_process.hash_spec = Some(Some(1))
    /\ doprf_process.windows # None
    /\ Unwrap(doprf_process.windows).count = 0
    /\ doprf_process.outcome = Some([kind |-> "Ok", n_hashes |-> 0, too_short |-> FALSE])

RECURSIVE HashIdsOf(_)
\* the HashIds of a payload, each from the record of the hash before it
HashIdsOf(payload) ==
    IF payload = <<>> THEN <<>>
    ELSE LET before == HashIdsOf(SubSeq(payload, 1, Len(payload) - 1))
         IN  Append(before,
                    HashIdNew(payload[Len(payload)].tag,
                              IF before = <<>> THEN None
                              ELSE Some(before[Len(before)].record)))

RECURSIVE ResponsesInPayloadOrder(_, _)
\* the entries found for the first n hashes of a payload, in payload order,
\* each with the HashId of its hash
ResponsesInPayloadOrder(payload, n) ==
    IF n = 0 THEN <<>>
    ELSE LET resp == query_hdb(payload[n].hash)
             before == ResponsesInPayloadOrder(payload, n - 1)
         IN  IF resp = None THEN before
             ELSE Append(before, <<HashIdsOf(payload)[n], Unwrap(resp)>>)

\* the number of results the stream of a task has yielded
Yielded(task) == CountLookups(task, {"yielded"})

\* C40: in a screening handler the HashIds are those of the payload taken in
\* order, each counted from the record of the hash before it, and the
\* results collected are those of the hashes whose result the stream has
\* yielded, in payload order, in whatever order the lookups finish; the
\* response is made from the results of the whole payload in payload order.
C40_PayloadOrder ==
    \A t \in Requests :
        /\ hdb_tasks[t].pc = "lookups" =>
              /\ hdb_tasks[t].hash_ids =
                     SubSeq(HashIdsOf(hdb_tasks[t].ristretto_data), 1,
                            Len(hdb_tasks[t].lookups))
              /\ hdb_tasks[t].hdb_responses =
                     ResponsesInPayloadOrder(hdb_tasks[t].ristretto_data,
                                             Yielded(hdb_tasks[t]))
        /\ (hdb_tasks[t].pc = "done" /\ hdb_tasks[t].hdb_responses # <<>>) =>
              \E payload \in TaskPayloads :
                  hdb_tasks[t].hdb_responses =
                      ResponsesInPayloadOrder(payload, Len(payload))

\* the second lookup of a payload has finished before the first, and the
\* stream has yielded neither
C40_Witness ==
    \E t \in Requests :
        /\ hdb_tasks[t].pc = "lookups"
        /\ Len(hdb_tasks[t].lookups) = 2
        /\ hdb_tasks[t].lookups[1] = "running"
        /\ hdb_tasks[t].lookups[2] = "finished"
        /\ hdb_tasks[t].hash_ids[2].record = 0
        /\ hdb_tasks[t].hdb_responses = <<>>

====
